---- MODULE Spec2Model ----
(***************************************************************************)
(* Path confinement and file operations of the excaliweb server             *)
(* (services/fileSystem.ts, routes/workspace.ts, routes/files.ts).          *)
(*                                                                         *)
(* A JavaScript string is modelled as a sequence of one-character tokens,   *)
(* so that String.startsWith, path.normalize, path.join, path.basename and  *)
(* path.dirname act on characters exactly as Node's POSIX implementation.   *)
(***************************************************************************)
EXTENDS Naturals, Integers, Sequences, FiniteSets, TLC

\* null, and an unset environment variable.  The code tests both only for
\* truthiness (!currentWorkspacePath, if (dataDir)), where the empty string
\* counts the same; no request can store the empty string in either.
Null == <<>>

----------------------------------------------------------------------------
(* String primitives                                                        *)

\* String.prototype.startsWith
StartsWith(s, pre) ==
  /\ Len(pre) <= Len(s)
  /\ SubSeq(s, 1, Len(pre)) = pre

\* String.prototype.endsWith
EndsWith(s, suf) ==
  /\ Len(suf) <= Len(s)
  /\ SubSeq(s, Len(s) - Len(suf) + 1, Len(s)) = suf

\* String.prototype.substring(n): the string without its first n characters
Substring(s, n) == SubSeq(s, n + 1, Len(s))

\* The '/'-separated pieces of a string, empty pieces included
RECURSIVE SplitFrom(_, _, _)
SplitFrom(s, i, cur) ==
  IF i > Len(s) THEN <<cur>>
  ELSE IF s[i] = "/" THEN <<cur>> \o SplitFrom(s, i + 1, <<>>)
  ELSE SplitFrom(s, i + 1, Append(cur, s[i]))

Split(s) == SplitFrom(s, 1, <<>>)

\* The pieces joined by '/'
RECURSIVE JoinWith(_)
JoinWith(segs) ==
  IF Len(segs) = 0 THEN <<>>
  ELSE IF Len(segs) = 1 THEN segs[1]
  ELSE segs[1] \o <<"/">> \o JoinWith(Tail(segs))

Dot == <<".">>
DotDot == <<".", ".">>

\* normalizeString of Node's path module: resolves '.' and '..' pieces and
\* drops empty ones; above the root '..' is dropped (absolute) or kept
RECURSIVE NormalizeSegs(_, _, _)
NormalizeSegs(segs, acc, allowAboveRoot) ==
  IF Len(segs) = 0 THEN acc
  ELSE LET s == segs[1]
           rest == Tail(segs)
       IN IF s = <<>> \/ s = Dot THEN NormalizeSegs(rest, acc, allowAboveRoot)
          ELSE IF s = DotDot
            THEN IF Len(acc) > 0 /\ acc[Len(acc)] # DotDot
                   THEN NormalizeSegs(rest, SubSeq(acc, 1, Len(acc) - 1), allowAboveRoot)
                 ELSE IF allowAboveRoot
                   THEN NormalizeSegs(rest, Append(acc, DotDot), allowAboveRoot)
                 ELSE NormalizeSegs(rest, acc, allowAboveRoot)
          ELSE NormalizeSegs(rest, Append(acc, s), allowAboveRoot)

NormalizeString(p, allowAboveRoot) ==
  JoinWith(NormalizeSegs(Split(p), <<>>, allowAboveRoot))

IsAbsolute(p) == Len(p) > 0 /\ p[1] = "/"

\* path.normalize (POSIX): a trailing separator is kept
Normalize(p) ==
  IF Len(p) = 0 THEN Dot
  ELSE LET isAbsolute == IsAbsolute(p)
           trailingSeparator == p[Len(p)] = "/"
           body == NormalizeString(p, ~isAbsolute)
       IN IF Len(body) = 0
            THEN IF isAbsolute THEN <<"/">>
                 ELSE IF trailingSeparator THEN <<".", "/">> ELSE Dot
          ELSE LET withSep == IF trailingSeparator THEN body \o <<"/">> ELSE body
               IN IF isAbsolute THEN <<"/">> \o withSep ELSE withSep

\* path.join(a, b): the non-empty arguments joined by '/', then normalized
Join(a, b) ==
  IF Len(a) = 0 /\ Len(b) = 0 THEN Dot
  ELSE IF Len(b) = 0 THEN Normalize(a)
  ELSE IF Len(a) = 0 THEN Normalize(b)
  ELSE Normalize(a \o <<"/">> \o b)

\* path.resolve of an absolute path: normalized, no trailing separator
Resolve(p) == <<"/">> \o NormalizeString(p, FALSE)

\* The string without its trailing separators
RECURSIVE StripTrailingSeps(_)
StripTrailingSeps(p) ==
  IF Len(p) > 0 /\ p[Len(p)] = "/"
    THEN StripTrailingSeps(SubSeq(p, 1, Len(p) - 1))
  ELSE p

\* path.basename: the piece after the last separator, trailing separators ignored
Basename(p) ==
  LET q == StripTrailingSeps(p)
      segs == Split(q)
  IN segs[Len(segs)]

\* path.dirname: scans from the end for the last separator that follows a piece
RECURSIVE DirnameEnd(_, _, _)
DirnameEnd(p, i, matchedSlash) ==
  IF i < 2 THEN 0
  ELSE IF p[i] = "/"
    THEN IF ~matchedSlash THEN i - 1 ELSE DirnameEnd(p, i - 1, matchedSlash)
  ELSE DirnameEnd(p, i - 1, FALSE)

Dirname(p) ==
  IF Len(p) = 0 THEN Dot
  ELSE LET hasRoot == p[1] = "/"
           end == DirnameEnd(p, Len(p), TRUE)
       IN IF end = 0 THEN (IF hasRoot THEN <<"/">> ELSE Dot)
          ELSE IF hasRoot /\ end = 1 THEN <<"/", "/">>
          ELSE SubSeq(p, 1, end)

----------------------------------------------------------------------------
(* Identifier codec: encodeFileId / decodeFileId                            *)

\* The characters the model's strings are made of.  A token is one UTF-16
\* code unit; the code units outside ASCII are named by their code point.
AsciiChars == {"/", ".", "2", "a", "b", "c", "d", "e", "i", "l", "n", "r", "s", "w", "x"}
WideChars == {"U+00E9", "U+20AC"}
HighSurrogate == "U+D83D"
LowSurrogate == "U+DE00"
Replacement == "U+FFFD"
Chars == AsciiChars \cup WideChars \cup {HighSurrogate, LowSurrogate, Replacement}

\* String.prototype.charCodeAt
CharCode(c) ==
  CASE c = "/" -> 47
    [] c = "." -> 46
    [] c = "2" -> 50
    [] c = "a" -> 97
    [] c = "b" -> 98
    [] c = "c" -> 99
    [] c = "d" -> 100
    [] c = "e" -> 101
    [] c = "i" -> 105
    [] c = "l" -> 108
    [] c = "n" -> 110
    [] c = "r" -> 114
    [] c = "s" -> 115
    [] c = "w" -> 119
    [] c = "x" -> 120
    [] c = "U+00E9" -> 233
    [] c = "U+20AC" -> 8364
    [] c = "U+D83D" -> 55357
    [] c = "U+DE00" -> 56832
    [] c = "U+FFFD" -> 65533

FromCharCode(n) == CHOOSE c \in Chars : CharCode(c) = n

IsHigh(n) == n >= 55296 /\ n <= 56319
IsLow(n) == n >= 56320 /\ n <= 57343

\* UTF-8 bytes of one code point
Utf8OfCodePoint(cp) ==
  IF cp < 128 THEN <<cp>>
  ELSE IF cp < 2048 THEN <<192 + (cp \div 64), 128 + (cp % 64)>>
  ELSE IF cp < 65536
    THEN <<224 + (cp \div 4096), 128 + ((cp \div 64) % 64), 128 + (cp % 64)>>
  ELSE <<240 + (cp \div 262144), 128 + ((cp \div 4096) % 64),
         128 + ((cp \div 64) % 64), 128 + (cp % 64)>>

\* Buffer.from(string): the string's UTF-8 bytes; a surrogate pair is one code
\* point, an unpaired surrogate is written as U+FFFD
RECURSIVE Utf8Encode(_)
Utf8Encode(s) ==
  IF Len(s) = 0 THEN <<>>
  ELSE LET u == CharCode(s[1])
       IN IF IsHigh(u) /\ Len(s) >= 2 /\ IsLow(CharCode(s[2]))
            THEN Utf8OfCodePoint(65536 + (u - 55296) * 1024 + (CharCode(s[2]) - 56320))
                 \o Utf8Encode(Substring(s, 2))
          ELSE IF IsHigh(u) \/ IsLow(u)
            THEN Utf8OfCodePoint(65533) \o Utf8Encode(Tail(s))
          ELSE Utf8OfCodePoint(u) \o Utf8Encode(Tail(s))

\* The UTF-16 code units of one code point
Utf16OfCodePoint(cp) ==
  IF cp < 65536 THEN <<FromCharCode(cp)>>
  ELSE <<FromCharCode(55296 + ((cp - 65536) \div 1024)),
         FromCharCode(56320 + ((cp - 65536) % 1024))>>

IsCont(b) == b >= 128 /\ b < 192

\* buffer.toString('utf-8'): an ill-formed sequence decodes to U+FFFD
RECURSIVE Utf8Decode(_)
Utf8Decode(bs) ==
  IF Len(bs) = 0 THEN <<>>
  ELSE LET b == bs[1]
       IN IF b < 128 THEN <<FromCharCode(b)>> \o Utf8Decode(Tail(bs))
          ELSE IF b >= 194 /\ b < 224 /\ Len(bs) >= 2 /\ IsCont(bs[2])
            THEN Utf16OfCodePoint((b - 192) * 64 + (bs[2] - 128))
                 \o Utf8Decode(Substring(bs, 2))
          ELSE IF b >= 224 /\ b < 240 /\ Len(bs) >= 3 /\ IsCont(bs[2]) /\ IsCont(bs[3])
                  /\ (b - 224) * 4096 + (bs[2] - 128) * 64 + (bs[3] - 128) >= 2048
                  /\ ~IsHigh((b - 224) * 4096 + (bs[2] - 128) * 64 + (bs[3] - 128))
                  /\ ~IsLow((b - 224) * 4096 + (bs[2] - 128) * 64 + (bs[3] - 128))
            THEN Utf16OfCodePoint((b - 224) * 4096 + (bs[2] - 128) * 64 + (bs[3] - 128))
                 \o Utf8Decode(Substring(bs, 3))
          ELSE IF b >= 240 /\ b < 245 /\ Len(bs) >= 4 /\ IsCont(bs[2]) /\ IsCont(bs[3])
                  /\ IsCont(bs[4])
                  /\ (b - 240) * 262144 + (bs[2] - 128) * 4096 + (bs[3] - 128) * 64
                       + (bs[4] - 128) >= 65536
                  /\ (b - 240) * 262144 + (bs[2] - 128) * 4096 + (bs[3] - 128) * 64
                       + (bs[4] - 128) < 1114112
            THEN Utf16OfCodePoint((b - 240) * 262144 + (bs[2] - 128) * 4096
                                  + (bs[3] - 128) * 64 + (bs[4] - 128))
                 \o Utf8Decode(Substring(bs, 4))
          ELSE <<Replacement>> \o Utf8Decode(Tail(bs))

\* The base64url alphabet: digit i is Base64UrlAlphabet[i + 1]
Base64UrlAlphabet ==
  <<"A", "B", "C", "D", "E", "F", "G", "H", "I", "J", "K", "L", "M",
    "N", "O", "P", "Q", "R", "S", "T", "U", "V", "W", "X", "Y", "Z",
    "a", "b", "c", "d", "e", "f", "g", "h", "i", "j", "k", "l", "m",
    "n", "o", "p", "q", "r", "s", "t", "u", "v", "w", "x", "y", "z",
    "0", "1", "2", "3", "4", "5", "6", "7", "8", "9", "-", "_">>

Digit(i) == Base64UrlAlphabet[i + 1]

DigitValue(c) == (CHOOSE i \in 1..64 : Base64UrlAlphabet[i] = c) - 1

\* buffer.toString('base64url'): 3 bytes make 4 digits, no padding
RECURSIVE Base64UrlOfBytes(_)
Base64UrlOfBytes(bs) ==
  IF Len(bs) = 0 THEN <<>>
  ELSE IF Len(bs) = 1
    THEN <<Digit(bs[1] \div 4), Digit((bs[1] % 4) * 16)>>
  ELSE IF Len(bs) = 2
    THEN <<Digit(bs[1] \div 4), Digit((bs[1] % 4) * 16 + (bs[2] \div 16)),
           Digit((bs[2] % 16) * 4)>>
  ELSE <<Digit(bs[1] \div 4), Digit((bs[1] % 4) * 16 + (bs[2] \div 16)),
         Digit((bs[2] % 16) * 4 + (bs[3] \div 64)), Digit(bs[3] % 64)>>
       \o Base64UrlOfBytes(Substring(bs, 3))

\* Buffer.from(id, 'base64url') on a string of base64url digits: 4 digits make
\* 3 bytes; a tail of 2 or 3 digits makes 1 or 2 bytes, a tail of 1 none
RECURSIVE BytesOfBase64Url(_)
BytesOfBase64Url(ds) ==
  IF Len(ds) < 2 THEN <<>>
  ELSE LET v1 == DigitValue(ds[1])
           v2 == DigitValue(ds[2])
       IN IF Len(ds) = 2 THEN <<v1 * 4 + (v2 \div 16)>>
          ELSE LET v3 == DigitValue(ds[3])
               IN IF Len(ds) = 3
                    THEN <<v1 * 4 + (v2 \div 16), (v2 % 16) * 16 + (v3 \div 4)>>
                  ELSE <<v1 * 4 + (v2 \div 16), (v2 % 16) * 16 + (v3 \div 4),
                         (v3 % 4) * 64 + DigitValue(ds[4])>>
                       \o BytesOfBase64Url(Substring(ds, 4))

\* One byte per UTF-16 code unit (Buffer.from(relativePath, 'latin1'))
RECURSIVE Latin1Encode(_)
Latin1Encode(s) ==
  IF Len(s) = 0 THEN <<>> ELSE <<CharCode(s[1]) % 256>> \o Latin1Encode(Tail(s))

encodeFileId_Latin1(relativePath) == Base64UrlOfBytes(Latin1Encode(relativePath))

encodeFileId(relativePath) == Base64UrlOfBytes(Utf8Encode(relativePath))

\* What Buffer.from(id, 'base64url') reads of a string: '+' and '/' count as
\* '-' and '_', '=' ends the input, every other character that is not a digit
\* is skipped.  No string makes it throw
RECURSIVE LegalDigits(_)
LegalDigits(s) ==
  IF Len(s) = 0 \/ s[1] = "=" THEN <<>>
  ELSE IF s[1] = "+" THEN <<"-">> \o LegalDigits(Tail(s))
  ELSE IF s[1] = "/" THEN <<"_">> \o LegalDigits(Tail(s))
  ELSE IF \E i \in 1..64 : Base64UrlAlphabet[i] = s[1] THEN <<s[1]>> \o LegalDigits(Tail(s))
  ELSE LegalDigits(Tail(s))

decodeFileId(fileId) == Utf8Decode(BytesOfBase64Url(LegalDigits(fileId)))

\* The client's encoder (utils/api.ts): btoa and three replacements.
\* btoa takes every character as one byte and throws on a character above
\* U+00FF; its digits 62 and 63 are '+' and '/', and '=' pads to 4 digits
Base64Digit(i) == IF i = 62 THEN "+" ELSE IF i = 63 THEN "/" ELSE Digit(i)

RECURSIVE Btoa(_)
Btoa(bs) ==
  IF Len(bs) = 0 THEN <<>>
  ELSE IF Len(bs) = 1
    THEN <<Base64Digit(bs[1] \div 4), Base64Digit((bs[1] % 4) * 16), "=", "=">>
  ELSE IF Len(bs) = 2
    THEN <<Base64Digit(bs[1] \div 4), Base64Digit((bs[1] % 4) * 16 + (bs[2] \div 16)),
           Base64Digit((bs[2] % 16) * 4), "=">>
  ELSE <<Base64Digit(bs[1] \div 4), Base64Digit((bs[1] % 4) * 16 + (bs[2] \div 16)),
         Base64Digit((bs[2] % 16) * 4 + (bs[3] \div 64)), Base64Digit(bs[3] % 64)>>
       \o Btoa(Substring(bs, 3))

\* The character codes of a string
RECURSIVE CharCodes(_)
CharCodes(s) == IF Len(s) = 0 THEN <<>> ELSE <<CharCode(s[1])>> \o CharCodes(Tail(s))

\* s.replace(/c/g, to) for a character c
RECURSIVE ReplaceAll(_, _, _)
ReplaceAll(s, c, to) ==
  IF Len(s) = 0 THEN <<>>
  ELSE (IF s[1] = c THEN to ELSE <<s[1]>>) \o ReplaceAll(Tail(s), c, to)

ErrInvalidCharacter == "InvalidCharacterError"

\* encodeFileId of the client
ClientEncodeFileId(path) ==
  IF \E i \in 1..Len(path) : CharCode(path[i]) > 255
    THEN [error |-> ErrInvalidCharacter, id |-> <<>>]
  ELSE [error |-> "",
        id |-> ReplaceAll(ReplaceAll(ReplaceAll(Btoa(CharCodes(path)), "+", <<"-">>),
                                     "/", <<"_">>), "=", <<>>)]

----------------------------------------------------------------------------
(* State                                                                    *)

VARIABLES
  dataDir,               \* process.env.DATA_DIR (read-only configuration)
  currentWorkspacePath,  \* fileSystem.ts: let currentWorkspacePath
  disk,                  \* the filesystem: absolute path |-> "dir" or a file's content
  changes,               \* how many requests have changed the filesystem
  resp,                  \* the answer on its way to the client (op "none": none)
  handlers,              \* the route handlers suspended at an await
  client                 \* the state of the App component in the browser

vars == <<dataDir, currentWorkspacePath, disk, changes, resp, handlers, client>>

\* No handler is suspended: every request so far was handled in one step
NoHandlers == {}

\* No async handler of the App component is at an await
NoTask ==
  [handler |-> "none", pc |-> "none", fileId |-> <<>>, data |-> "", name |-> <<>>,
   path |-> <<>>, currentFile |-> Null, target |-> Null]

\* The App component before a workspace is shown (App.tsx, the useState and
\* useRef initial values; "" is no data); alert is the last alert shown, task
\* the async handler that is at an await, with what its closure holds
NoClient ==
  [workspacePath |-> Null, currentFile |-> Null, excalidrawData |-> "",
   isDirty |-> FALSE, savedFingerprint |-> <<>>, alert |-> <<>>, task |-> NoTask]

\* The document extension
ExcalidrawExt == <<".", "e", "x", "c", "a", "l", "i", "d", "r", "a", "w">>

\* File contents: the template createFile writes, documents a client saves,
\* and bytes that are not JSON
InitialData == "initialData"
ClientDocs == {"docB"}
NotJson == "notJson"

----------------------------------------------------------------------------
(* Filesystem primitives (fs.promises of Node on a POSIX filesystem without *)
(* symbolic links).  A key of disk is a normalized absolute path.           *)

IsDir(d, k) == k \in DOMAIN d /\ d[k] = "dir"

IsFile(d, k) == k \in DOMAIN d /\ d[k] # "dir"

ChildKey(k, name) == IF k = <<"/">> THEN k \o name ELSE k \o <<"/">> \o name

ParentKey(k) == Dirname(k)

\* The non-empty pieces of a path
NonEmptyPieces(p) == SelectSeq(Split(p), LAMBDA s : s # <<>>)

\* Path resolution by the operating system: every piece passed through must
\* be an existing directory; '..' is the parent directory ('/' at the root)
RECURSIVE Walk(_, _, _)
Walk(d, segs, k) ==
  IF Len(segs) = 0 THEN [found |-> TRUE, key |-> k]
  ELSE IF ~IsDir(d, k) THEN [found |-> FALSE, key |-> k]
  ELSE LET s == segs[1]
       IN IF s = Dot THEN Walk(d, Tail(segs), k)
          ELSE IF s = DotDot THEN Walk(d, Tail(segs), ParentKey(k))
          ELSE IF ChildKey(k, s) \in DOMAIN d THEN Walk(d, Tail(segs), ChildKey(k, s))
          ELSE [found |-> FALSE, key |-> ChildKey(k, s)]

\* A path with a trailing separator names a directory or nothing
Lookup(d, p) ==
  LET w == Walk(d, NonEmptyPieces(p), <<"/">>)
  IN IF w.found /\ Len(p) > 1 /\ p[Len(p)] = "/" /\ ~IsDir(d, w.key)
       THEN [found |-> FALSE, key |-> w.key]
     ELSE w

\* fs.access succeeds
FsExists(d, p) == Lookup(d, p).found

\* The keys at or below k
Subtree(d, k) ==
  {x \in DOMAIN d : x = k \/ StartsWith(x, IF k = <<"/">> THEN k ELSE k \o <<"/">>)}

Without(d, ks) == [x \in (DOMAIN d) \ ks |-> d[x]]

\* fs.writeFile: creates the file or replaces its content; the parent
\* directory must exist
FsWriteFile(d, p, content) ==
  LET l == Lookup(d, p)
      parent == Lookup(d, Dirname(p))
  IN IF l.found
       THEN IF IsDir(d, l.key) THEN [error |-> "EISDIR", disk |-> d]
            ELSE [error |-> "", disk |-> [d EXCEPT ![l.key] = content]]
     ELSE IF p[Len(p)] = "/" \/ ~parent.found \/ ~IsDir(d, parent.key)
       THEN [error |-> "ENOENT", disk |-> d]
     ELSE [error |-> "",
           disk |-> (ChildKey(parent.key, Basename(p)) :> content) @@ d]

\* fs.mkdir(p, {recursive: true}): creates every missing directory on the way
RECURSIVE MkdirWalk(_, _, _)
MkdirWalk(d, segs, k) ==
  IF Len(segs) = 0 THEN [error |-> "", disk |-> d]
  ELSE LET s == segs[1]
           c == ChildKey(k, s)
       IN IF s = Dot THEN MkdirWalk(d, Tail(segs), k)
          ELSE IF s = DotDot THEN MkdirWalk(d, Tail(segs), ParentKey(k))
          ELSE IF c \notin DOMAIN d THEN MkdirWalk((c :> "dir") @@ d, Tail(segs), c)
          ELSE IF d[c] = "dir" THEN MkdirWalk(d, Tail(segs), c)
          ELSE [error |-> IF Len(segs) = 1 THEN "EEXIST" ELSE "ENOTDIR", disk |-> d]

FsMkdirRecursive(d, p) == MkdirWalk(d, NonEmptyPieces(p), <<"/">>)

\* fs.unlink: removes a file, refuses a directory
FsUnlink(d, p) ==
  LET l == Lookup(d, p)
  IN IF ~l.found THEN [error |-> "ENOENT", disk |-> d]
     ELSE IF IsDir(d, l.key) THEN [error |-> "EISDIR", disk |-> d]
     ELSE [error |-> "", disk |-> Without(d, {l.key})]

\* fs.rm(p, {recursive: true, force: true}): removes the entry and all below it
FsRmRecursive(d, p) ==
  LET l == Lookup(d, p)
  IN IF ~l.found THEN [error |-> "", disk |-> d]
     ELSE IF l.key = <<"/">> THEN [error |-> "EBUSY", disk |-> d]
     ELSE [error |-> "", disk |-> Without(d, Subtree(d, l.key))]

\* fs.rename: moves the entry with all below it; a file at the new path is
\* replaced
FsRename(d, old, new) ==
  LET lo == Lookup(d, old)
      parent == Lookup(d, Dirname(new))
      target == ChildKey(parent.key, Basename(new))
      moved == Subtree(d, lo.key)
      Rekey(x) == target \o Substring(x, Len(lo.key))
  IN IF ~lo.found \/ ~parent.found \/ ~IsDir(d, parent.key)
       THEN [error |-> "ENOENT", disk |-> d]
     ELSE IF target \in moved \/ StartsWith(target, lo.key \o <<"/">>)
       THEN [error |-> "EINVAL", disk |-> d]
     ELSE [error |-> "",
           disk |-> [x \in ((DOMAIN d) \ moved) \cup {Rekey(y) : y \in moved} |->
                       IF x \in {Rekey(y) : y \in moved}
                         THEN d[CHOOSE y \in moved : Rekey(y) = x]
                       ELSE d[x]]]

\* fs.readFile followed by JSON.parse
FsReadJson(d, p) ==
  LET l == Lookup(d, p)
  IN IF ~l.found THEN [error |-> "ENOENT", content |-> ""]
     ELSE IF IsDir(d, l.key) THEN [error |-> "EISDIR", content |-> ""]
     ELSE IF d[l.key] = NotJson THEN [error |-> "SyntaxError", content |-> ""]
     ELSE [error |-> "", content |-> d[l.key]]

----------------------------------------------------------------------------
(* services/fileSystem.ts                                                   *)

ErrNoWorkspace == "No workspace selected"
ErrOutsideWorkspace == "Invalid path: Access outside workspace is not allowed"
ErrOutsideDataDir == "Invalid path: Access outside data directory is not allowed"
ErrFileNotFound == "File not found"
ErrFileExists == "File already exists"
ErrRootDeletion == "Cannot delete workspace root directory"
ErrFolderNotFound == "Folder not found"
ErrNotADirectory == "Path is not a directory"
ErrFolderExists == "Folder already exists"
ErrNameTaken == "A file with this name already exists"
ErrWorkspaceMissing == "Workspace path does not exist"
\* path.basename(null) throws ERR_INVALID_ARG_TYPE
ErrTypeError == "TypeError [ERR_INVALID_ARG_TYPE]"

\* The relative path taken as it comes, the workspace's name left in front
CleanPath_NotStripped(relativePath) == relativePath

\* The relative path without the workspace's own folder name in front
CleanPath(relativePath) ==
  LET workspaceName == Basename(currentWorkspacePath)
  IN IF StartsWith(relativePath, workspaceName \o <<"/">>)
       THEN Substring(relativePath, Len(workspaceName) + 1)
     ELSE IF relativePath = workspaceName THEN <<>>
     ELSE relativePath

\* The path validatePath checks and returns
NormalizedPath(relativePath) ==
  Normalize(Join(currentWorkspacePath, CleanPath(relativePath)))

validatePath(relativePath) ==
  IF currentWorkspacePath = Null THEN [error |-> ErrNoWorkspace, path |-> <<>>]
  ELSE LET normalizedPath == NormalizedPath(relativePath)
           normalizedWorkspace == Normalize(currentWorkspacePath)
       IN IF ~StartsWith(normalizedPath, normalizedWorkspace)
            THEN [error |-> ErrOutsideWorkspace, path |-> <<>>]
          ELSE IF dataDir # Null /\ ~StartsWith(normalizedPath, Resolve(dataDir))
            THEN [error |-> ErrOutsideDataDir, path |-> <<>>]
          ELSE [error |-> "", path |-> normalizedPath]

\* A FileInfo or FolderInfo (types/index.ts); kind tells which ('children' in x)
\* source is not part of the value: it is the absolute path the value was
\* produced from
FileInfo(name, path, parentPath, source) ==
  [kind |-> "file", name |-> name, path |-> path, parentPath |-> parentPath,
   children |-> <<>>, isExpanded |-> FALSE, source |-> source]

FolderInfo(name, path, parentPath, children, isExpanded, source) ==
  [kind |-> "folder", name |-> name, path |-> path, parentPath |-> parentPath,
   children |-> children, isExpanded |-> isExpanded, source |-> source]

\* Nothing returned (null)
NoEntry ==
  [kind |-> "none", name |-> <<>>, path |-> <<>>, parentPath |-> <<>>,
   children |-> <<>>, isExpanded |-> FALSE, source |-> <<>>]

\* What a service call leaves behind: the error thrown ("" when it returns),
\* the filesystem, the paths validatePath returned and the paths handed to fs
Outcome(error, d, resolved, io) ==
  [error |-> error, disk |-> d, resolved |-> resolved, io |-> io,
   entry |-> NoEntry, content |-> ""]

Thrown(error) == Outcome(error, disk, {}, {})

\* s.indexOf(pattern), -1 when there is none
IndexOf(s, pattern) ==
  LET hits == {i \in 0..(Len(s) - Len(pattern)) :
                 SubSeq(s, i + 1, i + Len(pattern)) = pattern}
  IN IF hits = {} THEN -1 ELSE CHOOSE i \in hits : \A j \in hits : i <= j

\* s.replace(pattern, ''): the first occurrence is taken out
ReplaceFirst(s, pattern) ==
  LET i == IndexOf(s, pattern)
  IN IF i < 0 THEN s ELSE SubSeq(s, 1, i) \o Substring(s, i + Len(pattern))

WithExt(name) == IF EndsWith(name, ExcalidrawExt) THEN name ELSE name \o ExcalidrawExt

readFile(relativePath) ==
  LET v == validatePath(relativePath)
  IN IF v.error # "" THEN Thrown(v.error)
     ELSE IF ~FsExists(disk, v.path) THEN Outcome(ErrFileNotFound, disk, {v.path}, {v.path})
     ELSE [Outcome(FsReadJson(disk, v.path).error, disk, {v.path}, {v.path})
             EXCEPT !.content = FsReadJson(disk, v.path).content]

saveFile(relativePath, data) ==
  LET v == validatePath(relativePath)
      w == FsWriteFile(disk, v.path, data)
  IN IF v.error # "" THEN Thrown(v.error)
     ELSE Outcome(w.error, w.disk, {v.path}, {v.path})

\* createFile leaving the new file without the template (not JSON)
createFile_Blank(name, parentPath) ==
  LET fileName == WithExt(name)
      filePath == IF parentPath # <<>> THEN parentPath \o <<"/">> \o fileName ELSE fileName
      v == validatePath(filePath)
      parentDir == Dirname(v.path)
      m == FsMkdirRecursive(disk, parentDir)
      w == FsWriteFile(m.disk, v.path, NotJson)
  IN IF v.error # "" THEN Thrown(v.error)
     ELSE IF FsExists(disk, v.path) THEN Outcome(ErrFileExists, disk, {v.path}, {v.path})
     ELSE IF m.error # "" THEN Outcome(m.error, m.disk, {v.path}, {v.path, parentDir})
     ELSE IF w.error # "" THEN Outcome(w.error, w.disk, {v.path}, {v.path, parentDir})
     ELSE [Outcome("", w.disk, {v.path}, {v.path, parentDir})
             EXCEPT !.entry =
               FileInfo(ReplaceFirst(name, ExcalidrawExt), filePath,
                        IF parentPath # <<>> THEN parentPath
                        ELSE Basename(currentWorkspacePath),
                        v.path)]

\* createFile without the exists check: the template replaces the document
createFile_Overwriting(name, parentPath) ==
  LET fileName == WithExt(name)
      filePath == IF parentPath # <<>> THEN parentPath \o <<"/">> \o fileName ELSE fileName
      v == validatePath(filePath)
      parentDir == Dirname(v.path)
      m == FsMkdirRecursive(disk, parentDir)
      w == FsWriteFile(m.disk, v.path, InitialData)
  IN IF v.error # "" THEN Thrown(v.error)
     ELSE IF m.error # "" THEN Outcome(m.error, m.disk, {v.path}, {v.path, parentDir})
     ELSE IF w.error # "" THEN Outcome(w.error, w.disk, {v.path}, {v.path, parentDir})
     ELSE [Outcome("", w.disk, {v.path}, {v.path, parentDir})
             EXCEPT !.entry =
               FileInfo(ReplaceFirst(name, ExcalidrawExt), filePath,
                        IF parentPath # <<>> THEN parentPath
                        ELSE Basename(currentWorkspacePath),
                        v.path)]

createFile(name, parentPath) ==
  LET fileName == WithExt(name)
      filePath == IF parentPath # <<>> THEN parentPath \o <<"/">> \o fileName ELSE fileName
      v == validatePath(filePath)
      parentDir == Dirname(v.path)
      m == FsMkdirRecursive(disk, parentDir)
      w == FsWriteFile(m.disk, v.path, InitialData)
  IN IF v.error # "" THEN Thrown(v.error)
     ELSE IF FsExists(disk, v.path) THEN Outcome(ErrFileExists, disk, {v.path}, {v.path})
     ELSE IF m.error # "" THEN Outcome(m.error, m.disk, {v.path}, {v.path, parentDir})
     ELSE IF w.error # "" THEN Outcome(w.error, w.disk, {v.path}, {v.path, parentDir})
     ELSE [Outcome("", w.disk, {v.path}, {v.path, parentDir})
             EXCEPT !.entry =
               FileInfo(ReplaceFirst(name, ExcalidrawExt), filePath,
                        IF parentPath # <<>> THEN parentPath
                        ELSE Basename(currentWorkspacePath),
                        v.path)]

deleteFile(relativePath) ==
  LET v == validatePath(relativePath)
      u == FsUnlink(disk, v.path)
  IN IF v.error # "" THEN Thrown(v.error)
     ELSE IF ~FsExists(disk, v.path) THEN Outcome(ErrFileNotFound, disk, {v.path}, {v.path})
     ELSE Outcome(u.error, u.disk, {v.path}, {v.path})

\* deleteFolder without the isDirectory check: a document is removed as well
deleteFolder_AnyEntry(relativePath) ==
  IF currentWorkspacePath = Null THEN Thrown(ErrTypeError)
  ELSE LET workspaceName == Basename(currentWorkspacePath)
           v == validatePath(relativePath)
           r == FsRmRecursive(disk, v.path)
       IN IF relativePath = workspaceName \/ relativePath = <<>> THEN Thrown(ErrRootDeletion)
          ELSE IF v.error # "" THEN Thrown(v.error)
          ELSE IF ~FsExists(disk, v.path)
            THEN Outcome(ErrFolderNotFound, disk, {v.path}, {v.path})
          ELSE Outcome(r.error, r.disk, {v.path}, {v.path})

deleteFolder(relativePath) ==
  IF currentWorkspacePath = Null THEN Thrown(ErrTypeError)
  ELSE LET workspaceName == Basename(currentWorkspacePath)
           v == validatePath(relativePath)
           r == FsRmRecursive(disk, v.path)
       IN IF relativePath = workspaceName \/ relativePath = <<>> THEN Thrown(ErrRootDeletion)
          ELSE IF v.error # "" THEN Thrown(v.error)
          ELSE IF ~FsExists(disk, v.path)
            THEN Outcome(ErrFolderNotFound, disk, {v.path}, {v.path})
          ELSE IF ~IsDir(disk, Lookup(disk, v.path).key)
            THEN Outcome(ErrNotADirectory, disk, {v.path}, {v.path})
          ELSE Outcome(r.error, r.disk, {v.path}, {v.path})

createFolder(name, parentPath) ==
  LET folderPath == IF parentPath # <<>> THEN parentPath \o <<"/">> \o name ELSE name
      v == validatePath(folderPath)
      m == FsMkdirRecursive(disk, v.path)
  IN IF v.error # "" THEN Thrown(v.error)
     ELSE IF FsExists(disk, v.path) THEN Outcome(ErrFolderExists, disk, {v.path}, {v.path})
     ELSE IF m.error # "" THEN Outcome(m.error, m.disk, {v.path}, {v.path})
     ELSE [Outcome("", m.disk, {v.path}, {v.path})
             EXCEPT !.entry =
               FolderInfo(name, folderPath,
                          IF parentPath # <<>> THEN parentPath
                          ELSE Basename(currentWorkspacePath),
                          <<>>, FALSE, v.path)]

\* The path renameFile renames to
NewAbsolutePath(oldAbsolutePath, newName) ==
  Join(Dirname(oldAbsolutePath), WithExt(newName))

\* renameFile without the test for an entry at the new path
renameFile_Overwriting(oldRelativePath, newName) ==
  LET v == validatePath(oldRelativePath)
      newAbsolutePath == NewAbsolutePath(v.path, newName)
      r == FsRename(disk, v.path, newAbsolutePath)
  IN IF v.error # "" THEN Thrown(v.error)
     ELSE IF ~FsExists(disk, v.path) THEN Outcome(ErrFileNotFound, disk, {v.path}, {v.path})
     ELSE Outcome(r.error, r.disk, {v.path}, {v.path, newAbsolutePath})

renameFile(oldRelativePath, newName) ==
  LET v == validatePath(oldRelativePath)
      newAbsolutePath == NewAbsolutePath(v.path, newName)
      r == FsRename(disk, v.path, newAbsolutePath)
  IN IF v.error # "" THEN Thrown(v.error)
     ELSE IF ~FsExists(disk, v.path) THEN Outcome(ErrFileNotFound, disk, {v.path}, {v.path})
     ELSE IF FsExists(disk, newAbsolutePath)
       THEN Outcome(ErrNameTaken, disk, {v.path}, {v.path, newAbsolutePath})
     ELSE IF r.error # "" THEN Outcome(r.error, r.disk, {v.path}, {v.path, newAbsolutePath})
     ELSE [Outcome("", r.disk, {v.path}, {v.path, newAbsolutePath})
             EXCEPT !.entry =
               FileInfo(ReplaceFirst(newName, ExcalidrawExt),
                        Join(Dirname(oldRelativePath), WithExt(newName)),
                        Dirname(oldRelativePath), newAbsolutePath)]

\* a.localeCompare(b) for names made of '.', digits and lower-case letters,
\* which the collation orders as their codes do: -1, 0 or 1
RECURSIVE LocaleCompare(_, _)
LocaleCompare(a, b) ==
  IF Len(a) = 0 /\ Len(b) = 0 THEN 0
  ELSE IF Len(a) = 0 THEN -1
  ELSE IF Len(b) = 0 THEN 1
  ELSE IF CharCode(a[1]) < CharCode(b[1]) THEN -1
  ELSE IF CharCode(a[1]) > CharCode(b[1]) THEN 1
  ELSE LocaleCompare(Tail(a), Tail(b))

RECURSIVE SortedSeq(_)
SortedSeq(names) ==
  IF names = {} THEN <<>>
  ELSE LET m == CHOOSE x \in names : \A y \in names : LocaleCompare(x, y) <= 0
       IN <<m>> \o SortedSeq(names \ {m})

Reverse(s) == [i \in 1..Len(s) |-> s[Len(s) + 1 - i]]

\* The orders in which fs.readdir may list a directory
ReaddirOrders == {"forward", "reverse"}

\* fs.readdir(k): the names of the entries of directory k, in the given order
Readdir(d, k, order) ==
  LET names == {Basename(x) : x \in {y \in DOMAIN d : y # k /\ ParentKey(y) = k}}
  IN IF order = "forward" THEN SortedSeq(names) ELSE Reverse(SortedSeq(names))

\* The comparator of children.sort: folders first, then by name
CompareChildren(a, b) ==
  IF a.kind = "folder" /\ b.kind # "folder" THEN -1
  ELSE IF a.kind # "folder" /\ b.kind = "folder" THEN 1
  ELSE LocaleCompare(a.name, b.name)

\* Array.prototype.sort is stable: equal elements keep their order
RECURSIVE InsertChild(_, _)
InsertChild(sorted, x) ==
  IF Len(sorted) = 0 THEN <<x>>
  ELSE IF CompareChildren(sorted[1], x) <= 0
    THEN <<sorted[1]>> \o InsertChild(Tail(sorted), x)
  ELSE <<x>> \o sorted

RECURSIVE SortChildren(_)
SortChildren(children) ==
  IF Len(children) = 0 THEN <<>>
  ELSE InsertChild(SortChildren(SubSeq(children, 1, Len(children) - 1)),
                   children[Len(children)])

RECURSIVE listExcalidrawFilesRecursive(_, _, _, _)
RECURSIVE PushChildren(_, _, _, _, _)

\* The loop over the entries of dirPath: the children in the order listed
PushChildren(d, dirPath, currentPath, entries, order) ==
  IF Len(entries) = 0 THEN <<>>
  ELSE LET name == entries[1]
           k == ChildKey(Lookup(d, dirPath).key, name)
           rest == PushChildren(d, dirPath, currentPath, Tail(entries), order)
       IN IF IsFile(d, k) /\ EndsWith(name, ExcalidrawExt)
            THEN <<FileInfo(ReplaceFirst(name, ExcalidrawExt),
                            currentPath \o <<"/">> \o name, currentPath,
                            Join(dirPath, name))>> \o rest
          ELSE IF IsDir(d, k) /\ ~StartsWith(name, <<".">>)
            THEN <<listExcalidrawFilesRecursive(d, Join(dirPath, name), currentPath,
                                                order)>> \o rest
          ELSE rest

listExcalidrawFilesRecursive(d, dirPath, parentPath, order) ==
  LET dirName == Basename(dirPath)
      currentPath == IF parentPath # <<>> THEN parentPath \o <<"/">> \o dirName
                     ELSE dirName
      entries == Readdir(d, Lookup(d, dirPath).key, order)
      children == PushChildren(d, dirPath, currentPath, entries, order)
  IN FolderInfo(dirName, currentPath, parentPath, SortChildren(children),
                parentPath = <<>>, dirPath)

\* getFileTree: null without a workspace, the tree of the workspace otherwise;
\* fs.readdir fails on a path that is not a directory
getFileTree(d, order) ==
  IF currentWorkspacePath = Null THEN [error |-> "", tree |-> NoEntry]
  ELSE IF ~FsExists(d, currentWorkspacePath)
    THEN [error |-> ErrWorkspaceMissing, tree |-> NoEntry]
  ELSE IF ~IsDir(d, Lookup(d, currentWorkspacePath).key)
    THEN [error |-> "ENOTDIR", tree |-> NoEntry]
  ELSE [error |-> "",
        tree |-> listExcalidrawFilesRecursive(d, currentWorkspacePath, <<>>, order)]

\* getFileTree's failure when the workspace directory is gone
getFileTreeError(workspacePath, d) ==
  IF workspacePath # Null /\ ~FsExists(d, workspacePath)
    THEN ErrWorkspaceMissing
  ELSE ""

----------------------------------------------------------------------------
(* Requests.  Every input is drawn from a finite set of strings chosen to    *)
(* cover the cases of the path checks: the workspace's own name as prefix,   *)
(* '.' and '..' pieces, a sibling directory whose name starts with the       *)
(* workspace's name, and directories outside every root.                     *)

\* The largest number of requests that change the filesystem in one run
MaxChanges == 1

\* The directories and the document present when the server starts
DataDirPath == <<"/", "d">>

InitialDisk ==
  (<<"/">> :> "dir") @@ (<<"/", "d">> :> "dir") @@ (<<"/", "d", "2">> :> "dir")
  @@ (<<"/", "e">> :> "dir") @@ (<<"/", "d", "/", "s">> :> "dir")
  @@ (<<"/", "d", "/", "a", ".", "e", "x", "c", "a", "l", "i", "d", "r", "a", "w">> :> "docA")

\* Bodies of POST /api/workspace/select ("" is a missing path)
SelectPaths ==
  {<<>>,
   <<"/", "d">>,
   <<"/", "d", "2">>,
   <<"/", "d", "/", "n">>,
   <<"/", "d", "/", ".", ".", "/", "e">>,
   <<"/", "d", "/", "a", ".", "e", "x", "c", "a", "l", "i", "d", "r", "a", "w">>}

\* Relative paths clients send encoded as :fileId / :folderId
RelativePaths ==
  {<<>>,
   <<"d">>,
   <<"d", "/", ".">>,
   <<"d", "/", "a", ".", "e", "x", "c", "a", "l", "i", "d", "r", "a", "w">>,
   <<"d", "/", "s">>,
   <<"d", "/", "s", "/", ".", ".", "/", "a", ".", "e", "x", "c", "a", "l", "i", "d", "r", "a", "w">>,
   <<".", ".", "/", "d", "2">>,
   <<".", ".", "/", "e">>}

\* Ids that are not base64url: "Z!A" reads as the digits "ZA" (the path "d"),
\* "!" as no digit at all
MalformedIds == {<<"Z", "!", "A">>, <<"!">>}

\* The ids clients send.  A route parameter is never empty: the empty path
\* is what the id "A" decodes to (a single digit holds no byte)
FileIds == {encodeFileId(p) : p \in RelativePaths \ {<<>>}} \cup {<<"A">>} \cup MalformedIds

\* name / newName of create and rename bodies ("" is a missing name)
Names ==
  {<<>>,
   <<"b">>,
   <<"a">>,
   <<".", ".", "/", ".", ".", "/", "e", "/", "b">>}

\* parentPath of create bodies ("" is a missing parent path)
ParentPaths ==
  {<<>>,
   <<"d">>,
   <<".", ".", "/", "d", "2">>}

\* content of save bodies ("" is a missing content)
Contents == ClientDocs \cup {""}

\* The entries that differ between two filesystems
Changed(d1, d2) ==
  {k \in (DOMAIN d1) \cup (DOMAIN d2) :
     k \notin DOMAIN d1 \/ k \notin DOMAIN d2 \/ d1[k] # d2[k]}

\* The filesystem a request leaves is within the run's budget of changes
WithinBudget(d) ==
  /\ Changed(disk, d) # {} => changes < MaxChanges
  /\ changes' = IF Changed(disk, d) # {} THEN changes + 1 ELSE changes

\* An answer: the request (op, fileId, path, name), the status and error sent,
\* the entity, content or tree sent with a 200, and what the handler did:
\* wsBefore is currentWorkspacePath before the handler's own setWorkspacePath
\* (before its answer when it made none), wsWritten the root it wrote (Null:
\* it wrote none)
Response(op, fileId, path, name, status, error, o) ==
  [op |-> op, fileId |-> fileId, path |-> path, name |-> name, status |-> status,
   error |-> error, entry |-> o.entry, content |-> o.content, tree |-> NoEntry,
   resolved |-> o.resolved, io |-> o.io, changed |-> Changed(disk, o.disk),
   wsBefore |-> currentWorkspacePath, wsWritten |-> Null]

\* No answer on its way.  A handler runs as one step, so requests are handled
\* one after the other; resp keeps the answer of the last one until it has
\* been received, and the next request is taken up after that
NoResponse ==
  [op |-> "none", fileId |-> <<>>, path |-> <<>>, name |-> <<>>, status |-> 0,
   error |-> "", entry |-> NoEntry, content |-> "", tree |-> NoEntry,
   resolved |-> {}, io |-> {}, changed |-> {}, wsBefore |-> Null,
   wsWritten |-> Null]

\* A request answered before any service call
Refuse(op, fileId, path, name, status, error) ==
  /\ resp = NoResponse
  /\ resp' = Response(op, fileId, path, name, status, error, Thrown(error))
  /\ UNCHANGED <<dataDir, currentWorkspacePath, disk, changes, handlers, client>>

\* A request answered after a service call: 200, or 500 with the error thrown
Serve(op, fileId, path, name, o) ==
  /\ resp = NoResponse
  /\ WithinBudget(o.disk)
  /\ resp' = Response(op, fileId, path, name, IF o.error = "" THEN 200 ELSE 500,
                      o.error, o)
  /\ disk' = o.disk
  /\ UNCHANGED <<dataDir, currentWorkspacePath, handlers, client>>

Init ==
  /\ dataDir \in {Null, DataDirPath}
  /\ currentWorkspacePath \in {Null, dataDir}
  /\ disk = InitialDisk
  /\ changes = 0
  /\ resp = NoResponse
  /\ handlers = NoHandlers
  /\ client = NoClient

\* POST /api/workspace/select
SelectWorkspace(workspacePath) ==
  LET normalizedPath == Resolve(workspacePath)
      normalizedDataDir == Resolve(dataDir)
      l == Lookup(disk, workspacePath)
      m == FsMkdirRecursive(disk, workspacePath)
      Answer(status, error, ws, d) ==
        /\ resp = NoResponse
        /\ WithinBudget(d)
        /\ resp' = [Response("select", <<>>, workspacePath, <<>>, status, error,
                             Outcome(error, d, {}, {}))
                     EXCEPT !.wsWritten = IF status = 400 THEN Null ELSE ws]
        /\ currentWorkspacePath' = ws
        /\ disk' = d
        /\ UNCHANGED <<dataDir, handlers, client>>
      Selected(d) ==
        IF getFileTreeError(workspacePath, d) # ""
          THEN Answer(500, getFileTreeError(workspacePath, d), workspacePath, d)
        ELSE Answer(200, "", workspacePath, d)
  IN IF workspacePath = <<>> THEN Refuse("select", <<>>, workspacePath, <<>>, 400, "Invalid path")
     ELSE IF dataDir # Null /\ ~StartsWith(normalizedPath, normalizedDataDir)
       THEN Refuse("select", <<>>, workspacePath, <<>>, 403,
                   "Invalid workspace path: Must be within data directory")
     ELSE IF l.found
       THEN IF ~IsDir(disk, l.key)
              THEN Refuse("select", <<>>, workspacePath, <<>>, 400, "Path is not a directory")
            ELSE Selected(disk)
     ELSE IF dataDir # Null
       THEN IF m.error # ""
              THEN Answer(400, "Path does not exist and could not be created",
                          currentWorkspacePath, m.disk)
            ELSE Selected(m.disk)
     ELSE Refuse("select", <<>>, workspacePath, <<>>, 400,
                 "Path does not exist or is not accessible")

\* GET /api/files/:fileId
GetFileContent(fileId) ==
  Serve("readFile", fileId, decodeFileId(fileId), <<>>, readFile(decodeFileId(fileId)))

\* PUT /api/files/:fileId
SaveFileContent(fileId, content) ==
  IF content = "" THEN Refuse("saveFile", fileId, decodeFileId(fileId), <<>>, 400, "Missing content")
  ELSE Serve("saveFile", fileId, decodeFileId(fileId), <<>>, saveFile(decodeFileId(fileId), content))

\* POST /api/files
CreateNewFile(name, parentPath) ==
  IF name = <<>> THEN Refuse("createFile", <<>>, parentPath, name, 400, "Invalid file name")
  ELSE IF parentPath = <<>>
    THEN Refuse("createFile", <<>>, parentPath, name, 400, "Invalid parent path")
  ELSE Serve("createFile", <<>>, parentPath, name, createFile(name, parentPath))

\* POST /api/files/folder
CreateNewFolder(name, parentPath) ==
  IF name = <<>> THEN Refuse("createFolder", <<>>, parentPath, name, 400, "Invalid folder name")
  ELSE IF parentPath = <<>>
    THEN Refuse("createFolder", <<>>, parentPath, name, 400, "Invalid parent path")
  ELSE Serve("createFolder", <<>>, parentPath, name, createFolder(name, parentPath))

\* DELETE /api/files/:fileId
DeleteFile(fileId) ==
  Serve("deleteFile", fileId, decodeFileId(fileId), <<>>, deleteFile(decodeFileId(fileId)))

\* DELETE /api/files/folder/:folderId
DeleteFolder(folderId) ==
  Serve("deleteFolder", folderId, decodeFileId(folderId), <<>>, deleteFolder(decodeFileId(folderId)))

\* PATCH /api/files/:fileId/rename
RenameFile(fileId, newName) ==
  IF newName = <<>>
    THEN Refuse("renameFile", fileId, decodeFileId(fileId), newName, 400, "Invalid file name")
  ELSE Serve("renameFile", fileId, decodeFileId(fileId), newName,
             renameFile(decodeFileId(fileId), newName))

\* GET /api/files
GetFiles(order) ==
  LET g == getFileTree(disk, order)
  IN /\ resp = NoResponse
     /\ resp' = [Response("getFileTree", <<>>, <<>>, <<>>,
                           IF g.error = "" THEN 200 ELSE 500, g.error, Thrown(g.error))
                   EXCEPT !.tree = g.tree]
     /\ UNCHANGED <<dataDir, currentWorkspacePath, disk, changes, handlers, client>>

\* os.homedir()
HomeDir == <<"/", "e">>

\* Paths of the directory browser's list requests (<<>>: no path given)
BrowsePaths ==
  {<<>>,
   <<"/", "d">>,
   <<"/", "d", "/", "s">>,
   <<"/", "d", "2">>,
   <<"/", "e">>,
   <<"/", "d", "/", ".", ".", "/", "e">>,
   <<"/", "d", "/">> \o ExcalidrawExt}

\* A DirectoryItem of the list answer (every directory is readable)
DirectoryItem(name, path) ==
  [kind |-> "directory", name |-> name, path |-> path, parentPath |-> <<>>,
   children |-> <<>>, isExpanded |-> FALSE, source |-> path]

\* The directories of currentPath outside dot-names, sorted by name
RECURSIVE DirectoryItems(_, _)
DirectoryItems(currentPath, names) ==
  IF Len(names) = 0 THEN <<>>
  ELSE LET fullPath == Join(currentPath, names[1])
           rest == DirectoryItems(currentPath, Tail(names))
       IN IF IsDir(disk, Lookup(disk, fullPath).key) /\ names[1][1] # "."
            THEN <<DirectoryItem(names[1], fullPath)>> \o rest
          ELSE rest

\* The parentPath of the list answer (null is Null)
BrowseParent(currentPath) ==
  LET parentDir == Dirname(currentPath)
      normalizedDataDir == Resolve(dataDir)
  IN IF currentPath = <<"/">> THEN Null
     ELSE IF dataDir = Null THEN parentDir
     ELSE IF StartsWith(parentDir, normalizedDataDir) \/ parentDir = normalizedDataDir
       THEN parentDir
     ELSE IF currentPath # normalizedDataDir THEN normalizedDataDir
     ELSE Null

\* GET /api/filesystem/list?path=requestedPath.  The answer's tree holds the
\* listing: path is currentPath, parentPath the parentPath, children the
\* directories
ListDirectories(requestedPath) ==
  LET currentPath ==
        IF dataDir # Null
          THEN IF requestedPath = <<>> THEN dataDir ELSE Resolve(requestedPath)
        ELSE Resolve(IF requestedPath = <<>> THEN HomeDir ELSE requestedPath)
      l == Lookup(disk, currentPath)
      Listed ==
        /\ resp = NoResponse
        /\ resp' = [Response("list", <<>>, requestedPath, <<>>, 200, "", Thrown(""))
                      EXCEPT !.tree =
                        FolderInfo(Basename(currentPath), currentPath,
                                   BrowseParent(currentPath),
                                   DirectoryItems(currentPath,
                                                  Readdir(disk, l.key, "forward")),
                                   FALSE, currentPath),
                             !.io = {currentPath}]
        /\ UNCHANGED <<dataDir, currentWorkspacePath, disk, changes, handlers, client>>
  IN IF /\ dataDir # Null /\ requestedPath # <<>>
        /\ ~StartsWith(Resolve(requestedPath), Resolve(dataDir))
       THEN Refuse("list", <<>>, requestedPath, <<>>, 403,
                   "Access denied: Path outside data directory")
     ELSE IF ~l.found
       THEN Refuse("list", <<>>, requestedPath, <<>>, 403, "Cannot access directory")
     ELSE IF ~IsDir(disk, l.key)
       THEN Refuse("list", <<>>, requestedPath, <<>>, 400, "Path is not a directory")
     ELSE Listed

\* The client receives the answer
ReceiveResponse ==
  /\ resp # NoResponse
  /\ resp' = NoResponse
  /\ UNCHANGED <<dataDir, currentWorkspacePath, disk, changes, handlers, client>>

Next ==
  \/ ReceiveResponse
  \/ \E workspacePath \in SelectPaths : SelectWorkspace(workspacePath)
  \/ \E fileId \in FileIds : GetFileContent(fileId)
  \/ \E fileId \in FileIds, content \in Contents : SaveFileContent(fileId, content)
  \/ \E name \in Names, parentPath \in ParentPaths : CreateNewFile(name, parentPath)
  \/ \E name \in Names, parentPath \in ParentPaths : CreateNewFolder(name, parentPath)
  \/ \E fileId \in FileIds : DeleteFile(fileId)
  \/ \E folderId \in FileIds : DeleteFolder(folderId)
  \/ \E fileId \in FileIds, newName \in Names : RenameFile(fileId, newName)
  \/ \E order \in ReaddirOrders : GetFiles(order)
  \/ \E requestedPath \in BrowsePaths : ListDirectories(requestedPath)

Spec == Init /\ [][Next]_vars

----------------------------------------------------------------------------
(* validatePath on its own: every string up to MaxLen over PathChars, under  *)
(* workspace roots a select request can store                                *)

MaxLen == 5

PathChars == {"/", ".", "d", "2"}

RECURSIVE StringsUpTo(_, _)
StringsUpTo(chars, n) ==
  IF n = 0 THEN {<<>>}
  ELSE LET shorter == StringsUpTo(chars, n - 1)
       IN shorter \cup {Append(s, c) : s \in shorter, c \in chars}

PathStrings == StringsUpTo(PathChars, MaxLen)

\* Workspace roots: plain, with a trailing separator, not normalized
ResolveRoots ==
  {Null, <<"/", "d">>, <<"/", "d", "/">>, <<"/", "d", "/", ".", ".", "/", "d", "2">>}

InitResolve ==
  /\ dataDir \in {Null, DataDirPath}
  /\ currentWorkspacePath \in ResolveRoots
  /\ disk = InitialDisk
  /\ changes = 0
  /\ resp = NoResponse
  /\ handlers = NoHandlers
  /\ client = NoClient

\* A call of validatePath(relativePath)
CallValidatePath(relativePath) ==
  LET v == validatePath(relativePath)
  IN /\ resp = NoResponse
     /\ resp' = [NoResponse EXCEPT !.op = "validatePath", !.path = relativePath,
                                   !.error = v.error,
                                   !.resolved = IF v.error = "" THEN {v.path} ELSE {},
                                   !.wsBefore = currentWorkspacePath]
     /\ UNCHANGED <<dataDir, currentWorkspacePath, disk, changes, handlers, client>>

NextResolve ==
  \/ ReceiveResponse
  \/ \E relativePath \in PathStrings : CallValidatePath(relativePath)

SpecResolve == InitResolve /\ [][NextResolve]_vars

----------------------------------------------------------------------------
(* The codec on its own: every string up to MaxIdLen over CodecChars         *)

MaxIdLen == 4

CodecChars == {"/", "a", "U+00E9", "U+20AC", HighSurrogate, LowSurrogate}

CodecStrings == StringsUpTo(CodecChars, MaxIdLen)

\* decodeFileId(encodeFileId(relativePath)); name holds what comes back
CallCodec(relativePath) ==
  /\ resp = NoResponse
  /\ resp' = [NoResponse EXCEPT !.op = "codec", !.path = relativePath,
                                !.name = decodeFileId(encodeFileId(relativePath))]
  /\ UNCHANGED <<dataDir, currentWorkspacePath, disk, changes, handlers, client>>

\* decodeFileId of the id the client makes of a path; name holds what comes
\* back, error what the client's encoder throws
CallClientCodec(path) ==
  LET e == ClientEncodeFileId(path)
  IN /\ resp = NoResponse
     /\ resp' = [NoResponse EXCEPT !.op = "clientCodec", !.path = path,
                                   !.error = e.error,
                                   !.fileId = e.id,
                                   !.name = IF e.error = "" THEN decodeFileId(e.id)
                                            ELSE <<>>]
     /\ UNCHANGED <<dataDir, currentWorkspacePath, disk, changes, handlers, client>>

NextCodec ==
  \/ ReceiveResponse
  \/ \E relativePath \in CodecStrings : CallCodec(relativePath)
  \/ \E path \in CodecStrings : CallClientCodec(path)

SpecCodec == Init /\ [][NextCodec]_vars

----------------------------------------------------------------------------
(* The services on their own (calls of the functions fileSystem.ts         *)
(* exports, with every argument they accept), over workspaces that hold      *)
(* folders named like the workspace, dot-directories, dotfiles, files that   *)
(* are not documents and documents whose names differ only in where the     *)
(* extension stands, and over workspaces whose directory is gone            *)

\* The largest number of service calls that change the filesystem in one run
MaxTreeChanges == 2

Doc(name) == name \o ExcalidrawExt

EmptyWorkspaceDisk == (<<"/">> :> "dir") @@ (<<"/", "d">> :> "dir")

NestedDisk ==
  EmptyWorkspaceDisk
  @@ (<<"/", "d", "/", "d">> :> "dir")
  @@ (<<"/", "d", "/", "d", "/">> \o Doc(<<"a">>) :> "docA")
  @@ (<<"/", "d", "/", ".", "x">> :> "dir")
  @@ (<<"/", "d", "/", ".", "x", "/">> \o Doc(<<"a">>) :> "docA")
  @@ (<<"/", "d", "/", "n">> :> NotJson)
  @@ (<<"/", "d", "/">> \o Doc(<<".", "a">>) :> "docA")

\* Two documents that both show as "aa.excalidraw"
SameNameDisk ==
  EmptyWorkspaceDisk
  @@ (<<"/", "d", "/">> \o Doc(Doc(<<"a">>) \o <<"a">>) :> "docA")
  @@ (<<"/", "d", "/">> \o Doc(Doc(<<"a", "a">>)) :> "docB")
  @@ (<<"/", "d", "/", "s">> :> "dir")

\* The workspace directory removed, or replaced by a file
MissingRootDisk == (<<"/">> :> "dir") @@ (<<"/", "e">> :> "dir")
FileRootDisk == (<<"/">> :> "dir") @@ (<<"/", "d">> :> NotJson)

TreeDisks ==
  {InitialDisk, EmptyWorkspaceDisk, NestedDisk, SameNameDisk, MissingRootDisk,
   FileRootDisk}

TreeRoots == {Null, <<"/", "d">>, <<"/">>}

\* Arguments of the calls
TreeNames == {<<"b">>, <<"s">>, Doc(<<"a">>), <<"s", "/", "b">>}
TreeParents == {<<>>, <<"d">>, <<"d", "/", "s">>, <<"s">>}
TreePaths ==
  {<<"d", "/">> \o Doc(<<"a">>), <<"d", "/", "s">>, <<"d", "/", "d">>,
   <<"d", "/", "s", "/">> \o Doc(<<"b">>)}

InitTree ==
  /\ dataDir \in {Null, DataDirPath}
  /\ currentWorkspacePath \in
       IF dataDir = Null THEN TreeRoots ELSE TreeRoots \ {<<"/">>}
  /\ disk \in TreeDisks
  /\ changes = 0
  /\ resp = NoResponse
  /\ handlers = NoHandlers
  /\ client = NoClient

\* A call of a service function that is answered with what it returns or throws
ServiceCall(op, path, name, o) ==
  /\ resp = NoResponse
  /\ Changed(disk, o.disk) # {} => changes < MaxTreeChanges
  /\ changes' = IF Changed(disk, o.disk) # {} THEN changes + 1 ELSE changes
  /\ resp' = Response(op, <<>>, path, name, 0, o.error, o)
  /\ disk' = o.disk
  /\ UNCHANGED <<dataDir, currentWorkspacePath, handlers, client>>

CallGetFileTree(order) ==
  LET g == getFileTree(disk, order)
  IN /\ resp = NoResponse
     /\ resp' = [Response("getFileTree", <<>>, <<>>, <<>>, 0, g.error, Thrown(g.error))
                   EXCEPT !.tree = g.tree]
     /\ UNCHANGED <<dataDir, currentWorkspacePath, disk, changes, handlers, client>>

CallCreateFile(name, parentPath) ==
  ServiceCall("createFile", parentPath, name, createFile(name, parentPath))

CallCreateFolder(name, parentPath) ==
  ServiceCall("createFolder", parentPath, name, createFolder(name, parentPath))

CallDeleteFile(relativePath) ==
  ServiceCall("deleteFile", relativePath, <<>>, deleteFile(relativePath))

CallDeleteFolder(relativePath) ==
  ServiceCall("deleteFolder", relativePath, <<>>, deleteFolder(relativePath))

CallRenameFile(oldRelativePath, newName) ==
  ServiceCall("renameFile", oldRelativePath, newName,
              renameFile(oldRelativePath, newName))

NextTree ==
  \/ ReceiveResponse
  \/ \E order \in ReaddirOrders : CallGetFileTree(order)
  \/ \E name \in TreeNames, parentPath \in TreeParents : CallCreateFile(name, parentPath)
  \/ \E name \in TreeNames, parentPath \in TreeParents : CallCreateFolder(name, parentPath)
  \/ \E relativePath \in TreePaths : CallDeleteFile(relativePath)
  \/ \E relativePath \in TreePaths : CallDeleteFolder(relativePath)
  \/ \E oldRelativePath \in TreePaths, newName \in TreeNames :
       CallRenameFile(oldRelativePath, newName)

SpecTree == InitTree /\ [][NextTree]_vars

----------------------------------------------------------------------------
(* Requests in flight together.  Node runs a handler until it awaits a      *)
(* filesystem call and then runs whatever else is ready, so the handlers of *)
(* POST /api/workspace/select and GET /api/files are taken in their steps:  *)
(* a filesystem call acts on the filesystem of the moment it runs, and the  *)
(* code after the await runs in a later step.  The tree walk is one step.   *)

\* The largest number of select and tree requests in flight together
MaxRequests == 2

\* Workspace paths of the select requests
RacePaths == {<<"/", "d">>, <<"/", "d", "/", "s">>, <<"/", "d", "/", "n">>, <<"/", "e">>}

\* Folder ids of the delete requests
RaceFolderIds == {encodeFileId(<<"d", "/", "s">>), encodeFileId(<<"s">>)}

\* A handler at an await: pc is the call awaited, checked the path handed to
\* exists(); swapped tells that another request's setWorkspacePath ran
\* between this handler's call of getFileTree and its tree walk
Handler(id, op, path, pc, checked) ==
  [id |-> id, op |-> op, path |-> path, pc |-> pc, checked |-> checked,
   wsBefore |-> Null, wsWritten |-> Null, swapped |-> FALSE]

FreeIds == (1..MaxRequests) \ {h.id : h \in handlers}

\* The handler goes on to its next await
Await(h, g) ==
  /\ handlers' = (handlers \ {h}) \cup {g}
  /\ UNCHANGED <<dataDir, currentWorkspacePath, disk, changes, resp, client>>

\* The handler sends its answer and ends
Finish(h, status, error, tree) ==
  /\ resp = NoResponse
  /\ resp' = [Response(h.op, <<>>, h.path, <<>>, status, error, Thrown(error))
                EXCEPT !.tree = tree,
                       !.wsBefore = IF h.wsWritten = Null THEN currentWorkspacePath
                                    ELSE h.wsBefore,
                       !.wsWritten = h.wsWritten]
  /\ handlers' = handlers \ {h}
  /\ UNCHANGED <<dataDir, currentWorkspacePath, disk, changes, client>>

\* POST /api/workspace/select up to await fs.access
BeginSelect(id, workspacePath) ==
  IF workspacePath = <<>> THEN Refuse("select", <<>>, workspacePath, <<>>, 400, "Invalid path")
  ELSE IF dataDir # Null /\ ~StartsWith(Resolve(workspacePath), Resolve(dataDir))
    THEN Refuse("select", <<>>, workspacePath, <<>>, 403,
                "Invalid workspace path: Must be within data directory")
  ELSE /\ id \in FreeIds
       /\ handlers' = handlers \cup {Handler(id, "select", workspacePath, "stat", <<>>)}
       /\ UNCHANGED <<dataDir, currentWorkspacePath, disk, changes, resp, client>>

\* fs.access and fs.stat of the select handler
SelectStat(h) ==
  LET l == Lookup(disk, h.path)
  IN /\ h.op = "select" /\ h.pc = "stat"
     /\ IF l.found
          THEN IF ~IsDir(disk, l.key)
                 THEN Finish(h, 400, "Path is not a directory", NoEntry)
               ELSE Await(h, [h EXCEPT !.pc = "set"])
        ELSE IF dataDir # Null THEN Await(h, [h EXCEPT !.pc = "mkdir"])
        ELSE Finish(h, 400, "Path does not exist or is not accessible", NoEntry)

\* fs.mkdir of the select handler
SelectMkdir(h) ==
  LET m == FsMkdirRecursive(disk, h.path)
  IN /\ h.op = "select" /\ h.pc = "mkdir"
     /\ WithinBudget(m.disk)
     /\ disk' = m.disk
     /\ IF m.error # ""
          THEN /\ resp = NoResponse
               /\ resp' = Response("select", <<>>, h.path, <<>>, 400,
                                   "Path does not exist and could not be created",
                                   Outcome(m.error, m.disk, {}, {}))
               /\ handlers' = handlers \ {h}
        ELSE /\ handlers' = (handlers \ {h}) \cup {[h EXCEPT !.pc = "set"]}
             /\ UNCHANGED resp
     /\ UNCHANGED <<dataDir, currentWorkspacePath, client>>

\* The select handler after its checks: setWorkspacePath(workspacePath) and
\* getFileTree() up to await exists(currentWorkspacePath)
SelectSet(h) ==
  /\ h.op = "select" /\ h.pc = "set"
  /\ currentWorkspacePath' = h.path
  /\ handlers' =
       {[g EXCEPT !.swapped = TRUE] : g \in {g \in handlers \ {h} : g.pc \in {"exists", "walk"}}}
       \cup {g \in handlers \ {h} : g.pc \notin {"exists", "walk"}}
       \cup {[h EXCEPT !.pc = "exists", !.checked = h.path,
                       !.wsBefore = currentWorkspacePath, !.wsWritten = h.path]}
  /\ UNCHANGED <<dataDir, disk, changes, resp, client>>

\* GET /api/files: getFileTree() up to await exists(currentWorkspacePath)
BeginGetTree(id) ==
  IF currentWorkspacePath = Null
    THEN /\ resp = NoResponse
         /\ resp' = Response("getFileTree", <<>>, <<>>, <<>>, 200, "", Thrown(""))
         /\ UNCHANGED <<dataDir, currentWorkspacePath, disk, changes, handlers, client>>
  ELSE /\ id \in FreeIds
       /\ handlers' = handlers \cup
            {Handler(id, "getFileTree", <<>>, "exists", currentWorkspacePath)}
       /\ UNCHANGED <<dataDir, currentWorkspacePath, disk, changes, resp, client>>

\* fs.access of exists(): on the path getFileTree read before the await
TreeExists(h) ==
  /\ h.pc = "exists"
  /\ IF FsExists(disk, h.checked) THEN Await(h, [h EXCEPT !.pc = "walk"])
     ELSE Finish(h, 500, ErrWorkspaceMissing, NoEntry)

\* the tree walk on the path read before the await instead of the root of now
TreeWalk_Captured(h, order) ==
  /\ h.pc = "walk"
  /\ IF ~FsExists(disk, h.checked) THEN Finish(h, 500, "ENOENT", NoEntry)
     ELSE IF ~IsDir(disk, Lookup(disk, h.checked).key)
       THEN Finish(h, 500, "ENOTDIR", NoEntry)
     ELSE Finish(h, 200, "", listExcalidrawFilesRecursive(disk, h.checked, <<>>, order))

\* getFileTree after the await: listExcalidrawFilesRecursive of the
\* currentWorkspacePath of now, and the handler's answer
TreeWalk(h, order) ==
  /\ h.pc = "walk"
  /\ IF ~FsExists(disk, currentWorkspacePath) THEN Finish(h, 500, "ENOENT", NoEntry)
     ELSE IF ~IsDir(disk, Lookup(disk, currentWorkspacePath).key)
       THEN Finish(h, 500, "ENOTDIR", NoEntry)
     ELSE Finish(h, 200, "",
                 listExcalidrawFilesRecursive(disk, currentWorkspacePath, <<>>, order))

NextRace ==
  \/ ReceiveResponse
  \/ \E id \in 1..MaxRequests, workspacePath \in RacePaths : BeginSelect(id, workspacePath)
  \/ \E h \in handlers : SelectStat(h)
  \/ \E h \in handlers : SelectMkdir(h)
  \/ \E h \in handlers : SelectSet(h)
  \/ \E id \in 1..MaxRequests : BeginGetTree(id)
  \/ \E h \in handlers : TreeExists(h)
  \/ \E h \in handlers, order \in ReaddirOrders : TreeWalk(h, order)
  \/ \E folderId \in RaceFolderIds : DeleteFolder(folderId)

SpecRace == Init /\ [][NextRace]_vars

----------------------------------------------------------------------------
(* The App component (App.tsx) with the server.  An async handler of the    *)
(* component sends its request and is then at an await (task); the server   *)
(* handles the request in one step and the handler goes on with the answer  *)
(* in a later step, so the editor's onChange can run in between.  One       *)
(* handler is in flight at a time.                                          *)

\* The documents the editor can hold: the versions of their elements and the
\* background colour (docC differs from docA in its files only)
Elements(data) ==
  IF data = "docA" THEN <<1>>
  ELSE IF data = "docB" THEN <<2>>
  ELSE IF data = "docC" THEN <<1>>
  ELSE <<>>

RECURSIVE Sum(_)
Sum(s) == IF Len(s) = 0 THEN 0 ELSE s[1] + Sum(Tail(s))

\* getFingerprint: element count, sum of the versions, background colour
getFingerprint(data) == <<Len(Elements(data)), Sum(Elements(data)), "#ffffff">>

EditorDocs == {"docA", "docB", "docC"}

\* The documents of the tree the sidebar shows, by their entry paths
ClientFiles == {<<"d", "/">> \o Doc(<<"a">>), <<"d", "/">> \o Doc(<<"b">>)}

ClientNames == {<<"c">>}

ClientWorkspaces == {<<"/", "d", "/", "s">>, <<"/", "e">>}

ClientDisk == ((<<"/", "d", "/">> \o Doc(<<"b">>)) :> "docB") @@ InitialDisk

\* Workspace /d is shown, with no document or with a.excalidraw open and saved
InitClient ==
  /\ dataDir \in {Null, DataDirPath}
  /\ currentWorkspacePath = DataDirPath
  /\ disk = ClientDisk
  /\ changes = 0
  /\ resp = NoResponse
  /\ handlers = NoHandlers
  /\ client \in
       {[NoClient EXCEPT !.workspacePath = DataDirPath],
        [NoClient EXCEPT !.workspacePath = DataDirPath,
                         !.currentFile = <<"d", "/">> \o Doc(<<"a">>),
                         !.excalidrawData = "docA",
                         !.savedFingerprint = getFingerprint("docA")]}

Idle == client.task.handler = "none"

\* A step of the component alone: c is its state afterwards
Component(c) ==
  /\ client' = c
  /\ UNCHANGED <<dataDir, currentWorkspacePath, disk, changes, resp, handlers>>

\* The handler at an await goes on with the answer: c is the state afterwards
Resume(c) ==
  /\ resp # NoResponse
  /\ resp' = NoResponse
  /\ client' = c
  /\ UNCHANGED <<dataDir, currentWorkspacePath, disk, changes, handlers>>

\* A request of the handler h: the await it is at and what was sent
Request(h, pc, fileId, data, name, path, target) ==
  [handler |-> h, pc |-> pc, fileId |-> fileId, data |-> data, name |-> name,
   path |-> path, currentFile |-> client.currentFile, target |-> target]

\* saveFileContent(encodeFileId(currentFile.path), excalidrawData)
SaveRequest(h, name, path, target) ==
  Request(h, "save", ClientEncodeFileId(client.currentFile).id, client.excalidrawData,
          name, path, target)

\* isDirty && currentFile && excalidrawData
Unsaved == client.isDirty /\ client.currentFile # Null /\ client.excalidrawData # ""

\* The server handles the request the component is waiting for
ServerHandles ==
  /\ ~Idle
  /\ \/ client.task.pc = "save" /\ SaveFileContent(client.task.fileId, client.task.data)
     \/ client.task.pc = "read" /\ GetFileContent(client.task.fileId)
     \/ client.task.pc = "rename" /\ RenameFile(client.task.fileId, client.task.name)
     \/ client.task.pc = "tree" /\ \E order \in ReaddirOrders : GetFiles(order)
     \/ client.task.pc = "select" /\ SelectWorkspace(client.task.path)

\* The error member of the body of an answer that is not a 200
ErrorBody(r) ==
  IF r.status # 500 THEN r.error
  ELSE IF r.op = "saveFile" THEN "Failed to save file"
  ELSE IF r.op = "readFile" THEN "Failed to read file"
  ELSE IF r.op = "renameFile" THEN "Failed to rename file"
  ELSE IF r.op = "getFileTree" THEN "Failed to get workspace"
  ELSE "Failed to select workspace"

\* The alert of each handler's catch block
AlertOf(handler) ==
  IF handler = "handleSave" THEN "Failed to save. Please try again."
  ELSE IF handler = "handleSelectFile" THEN "Failed to read file: "
  ELSE IF handler = "handleRenameFile" THEN "Failed to rename file: "
  ELSE "Failed to select workspace: "

\* The catch block of the handler at the await: alert, nothing else
Caught(message) ==
  [client EXCEPT !.task = NoTask,
                 !.alert = <<AlertOf(client.task.handler),
                             IF client.task.handler = "handleSave" THEN "" ELSE message>>]

\* fetch rejects: the request does not reach the server, the handler's catch
\* block runs
FetchFails ==
  /\ ~Idle
  /\ resp = NoResponse
  /\ Component(Caught("Failed to fetch"))

\* The server process starts again: currentWorkspacePath is null, or DATA_DIR
\* with DEFAULT_WORKSPACE
ServerRestarts ==
  /\ resp = NoResponse
  /\ currentWorkspacePath' \in {Null, dataDir} \ {currentWorkspacePath}
  /\ UNCHANGED <<dataDir, disk, changes, resp, handlers, client>>

\* handleEditorChange (the editor's onChange)
handleEditorChange(newData) ==
  /\ client.currentFile # Null
  /\ Component([client EXCEPT
       !.excalidrawData = newData,
       !.isDirty = IF getFingerprint(newData) # client.savedFingerprint THEN TRUE
                   ELSE client.isDirty])

\* handleSave (auto-save timer, Ctrl+S) up to await saveFileContent
handleSave ==
  /\ Idle
  /\ Unsaved
  /\ ClientEncodeFileId(client.currentFile).error = ""
  /\ Component([client EXCEPT !.task = SaveRequest("handleSave", <<>>, <<>>, Null)])

\* handleSave after the await: the fingerprint is taken of the data the editor
\* holds now
AfterSave ==
  /\ client.task.handler = "handleSave"
  /\ Resume(IF resp.status = 200 /\ client.excalidrawData # ""
              THEN [client EXCEPT !.savedFingerprint = getFingerprint(client.excalidrawData),
                                  !.isDirty = FALSE,
                                  !.task = NoTask]
            ELSE Caught(ErrorBody(resp)))

\* handleSelectFile up to its first await
handleSelectFile(file) ==
  /\ Idle
  /\ client.currentFile # file
  /\ ClientEncodeFileId(file).error = ""
  /\ Component([client EXCEPT !.task =
       IF Unsaved THEN SaveRequest("handleSelectFile", <<>>, <<>>, file)
       ELSE Request("handleSelectFile", "read", ClientEncodeFileId(file).id, "",
                    <<>>, <<>>, file)])

\* handleSelectFile after an await
AfterSelectFile ==
  LET task == client.task
  IN /\ task.handler = "handleSelectFile"
     /\ Resume(IF resp.status # 200 THEN Caught(ErrorBody(resp))
               ELSE IF task.pc = "save"
                 THEN [client EXCEPT !.isDirty = FALSE,
                                     !.task = [task EXCEPT !.pc = "read",
                                                           !.fileId = ClientEncodeFileId(task.target).id]]
               ELSE [client EXCEPT !.currentFile = task.target,
                                   !.excalidrawData = resp.content,
                                   !.savedFingerprint = getFingerprint(resp.content),
                                   !.isDirty = FALSE,
                                   !.task = NoTask])

\* handleRenameFile (renameTarget set by handleOpenRenameModal) up to its
\* first await
handleRenameFile(renameTarget, newName) ==
  /\ Idle
  /\ client.workspacePath # Null
  /\ ClientEncodeFileId(renameTarget).error = ""
  /\ Component([client EXCEPT !.task =
       IF client.isDirty /\ client.currentFile = renameTarget /\ client.excalidrawData # ""
         THEN SaveRequest("handleRenameFile", newName, <<>>, renameTarget)
       ELSE Request("handleRenameFile", "rename", ClientEncodeFileId(renameTarget).id, "",
                    newName, <<>>, renameTarget)])

\* handleRenameFile after an await; path keeps updatedFile.path
AfterRenameFile ==
  LET task == client.task
  IN /\ task.handler = "handleRenameFile"
     /\ Resume(IF resp.status # 200 THEN Caught(ErrorBody(resp))
               ELSE IF task.pc = "save"
                 THEN [client EXCEPT !.task = [task EXCEPT !.pc = "rename",
                                                           !.fileId = ClientEncodeFileId(task.target).id]]
               ELSE IF task.pc = "rename"
                 THEN [client EXCEPT !.task = [task EXCEPT !.pc = "tree",
                                                           !.path = resp.entry.path]]
               ELSE [client EXCEPT !.currentFile = IF task.currentFile = task.target
                                                     THEN task.path
                                                   ELSE client.currentFile,
                                   !.isDirty = FALSE,
                                   !.task = NoTask])

\* handleSelectWorkspace up to its first await
handleSelectWorkspace(path) ==
  /\ Idle
  /\ Unsaved => ClientEncodeFileId(client.currentFile).error = ""
  /\ Component([client EXCEPT !.task =
       IF Unsaved
         THEN SaveRequest("handleSelectWorkspace", <<>>, path, Null)
       ELSE Request("handleSelectWorkspace", "select", <<>>, "", <<>>, path, Null)])

\* handleSelectWorkspace going on to selectWorkspace whatever the write's answer
AfterSelectWorkspace_Regardless ==
  LET task == client.task
  IN /\ task.handler = "handleSelectWorkspace"
     /\ Resume(IF task.pc = "save"
                 THEN [client EXCEPT !.task = [task EXCEPT !.pc = "select"]]
               ELSE IF resp.status # 200 THEN Caught(ErrorBody(resp))
               ELSE [client EXCEPT !.workspacePath = resp.path,
                                   !.currentFile = Null,
                                   !.excalidrawData = "",
                                   !.isDirty = FALSE,
                                   !.task = NoTask])

\* handleSelectWorkspace after an await
AfterSelectWorkspace ==
  LET task == client.task
  IN /\ task.handler = "handleSelectWorkspace"
     /\ Resume(IF resp.status # 200 THEN Caught(ErrorBody(resp))
               ELSE IF task.pc = "save"
                 THEN [client EXCEPT !.task = [task EXCEPT !.pc = "select"]]
               ELSE [client EXCEPT !.workspacePath = resp.path,
                                   !.currentFile = Null,
                                   !.excalidrawData = "",
                                   !.isDirty = FALSE,
                                   !.task = NoTask])

NextClient ==
  \/ ServerHandles
  \/ FetchFails
  \/ ServerRestarts
  \/ \E newData \in EditorDocs : handleEditorChange(newData)
  \/ handleSave
  \/ AfterSave
  \/ \E file \in ClientFiles : handleSelectFile(file)
  \/ AfterSelectFile
  \/ \E renameTarget \in ClientFiles, newName \in ClientNames :
       handleRenameFile(renameTarget, newName)
  \/ AfterRenameFile
  \/ \E path \in ClientWorkspaces : handleSelectWorkspace(path)
  \/ AfterSelectWorkspace

SpecClient == InitClient /\ [][NextClient]_vars

----------------------------------------------------------------------------
(* Properties                                                               *)

\* path is root itself or a true descendant of root (whole pieces match)
IsWithin(path, root) ==
  LET r == Resolve(root)
      q == Resolve(path)
  IN q = r \/ r = <<"/">> \/ StartsWith(q, r \o <<"/">>)

HasDotDotPiece(p) == \E i \in 1..Len(Split(p)) : Split(p)[i] = DotDot

PathEscape == {ErrOutsideWorkspace, ErrOutsideDataDir}

FileOps ==
  {"readFile", "saveFile", "createFile", "createFolder", "deleteFile", "deleteFolder",
   "renameFile"}

\* C1: every path validatePath returns is the workspace root itself or a true
\* descendant of it, never a sibling whose name begins with the root's string.
C1_ResolvedInsideRoot ==
  resp.op = "validatePath" =>
    \A q \in resp.resolved : IsWithin(q, currentWorkspacePath)

\* C2: every filesystem entry a file operation reads, creates, overwrites,
\* removes or renames to is a path validatePath returned (the parent directory
\* createFile makes for such a path counts with it) or, at the least, lies
\* inside the workspace root, as the destination of a rename must.
C2_OpsTouchOnlyResolvedPaths ==
  resp.op \in FileOps =>
    \A x \in resp.io :
      \/ x \in resp.resolved
      \/ \E r \in resp.resolved : x = Dirname(r)
      \/ IsWithin(x, currentWorkspacePath)

\* C3: with a workspace selected, every relative path that holds a '..' piece
\* and leads out of the workspace root (an escape attempt) is refused with
\* PathEscape, with DATA_DIR set or not.  The paths whose '..' stays inside
\* the root are left out: for them the claim asks more than confinement does.
C3_EscapingDotDotRefused ==
  (/\ resp.op = "validatePath"
   /\ currentWorkspacePath # Null
   /\ HasDotDotPiece(resp.path)
   /\ ~IsWithin(NormalizedPath(resp.path), currentWorkspacePath))
  => resp.error \in PathEscape

\* C4: with DATA_DIR set, every path validatePath returns is DATA_DIR itself
\* or a descendant of it, whatever workspaces have been selected.
C4_ResolvedInsideDataDir ==
  dataDir # Null => \A q \in resp.resolved : IsWithin(q, dataDir)

\* C5: with DATA_DIR set, the current workspace root is DATA_DIR or a true
\* descendant of it after any sequence of select requests.
C5_WorkspaceInsideDataDir ==
  (dataDir # Null /\ currentWorkspacePath # Null)
  => IsWithin(currentWorkspacePath, dataDir)

\* C6: with DATA_DIR set, a select request whose path normalizes to a location
\* outside DATA_DIR is answered 403 and leaves the workspace as it was.
C6_OutsideSelectRejected ==
  (/\ resp.op = "select"
   /\ dataDir # Null
   /\ resp.path # <<>>
   /\ ~IsWithin(resp.path, dataDir))
  => resp.status = 403 /\ currentWorkspacePath = resp.wsBefore

\* C7: no deleteFolder call removes the workspace root directory.
C7_RootSurvivesDeleteFolder ==
  (resp.op = "deleteFolder" /\ currentWorkspacePath # Null)
  => ~(/\ Resolve(currentWorkspacePath) \in resp.changed
       /\ Resolve(currentWorkspacePath) \notin DOMAIN disk)

\* C8: deleteFolder called with the empty string or with the workspace's own
\* folder name always fails with RootDeletionForbidden and changes nothing.
C8_RootDeletionForbidden ==
  (/\ resp.op = "deleteFolder"
   /\ \/ resp.path = <<>>
      \/ currentWorkspacePath # Null /\ resp.path = Basename(currentWorkspacePath))
  => resp.error = ErrRootDeletion /\ resp.changed = {}

\* C9: while no workspace is selected, every file operation fails with
\* NoWorkspaceSelected and changes nothing on the filesystem.
C9_NoWorkspaceSelected ==
  (/\ resp.op \in FileOps
   /\ currentWorkspacePath = Null
   /\ resp.status # 400)
  => resp.error = ErrNoWorkspace /\ resp.changed = {}

\* A string is well-formed UTF-16: every surrogate is part of a pair
WellFormed(s) ==
  \A i \in 1..Len(s) :
    /\ s[i] = HighSurrogate => i < Len(s) /\ s[i + 1] = LowSurrogate
    /\ s[i] = LowSurrogate => i > 1 /\ s[i - 1] = HighSurrogate

\* C10: decodeFileId(encodeFileId(p)) = p for every relative path p that is a
\* well-formed string.
C10_DecodeEncodeIsIdentity ==
  (resp.op = "codec" /\ WellFormed(resp.path)) => resp.name = resp.path

C10_Witness ==
  /\ resp.op = "codec"
  /\ resp.path = <<"U+20AC", "/", HighSurrogate, LowSurrogate>>
  /\ resp.name = resp.path

\* An id with a character outside the base64url alphabet
Malformed(fileId) ==
  \E i \in 1..Len(fileId) : \A j \in 1..64 : Base64UrlAlphabet[j] # fileId[i]

\* C11: every file route that receives an id that is not valid base64url
\* answers with a 400-class status (decoding fails with MalformedIdentifier);
\* it neither goes on with a decoded path nor answers with a generic fault.
C11_MalformedIdRefused ==
  (resp.op \in FileOps /\ Malformed(resp.fileId))
  => resp.status >= 400 /\ resp.status < 500 /\ resp.resolved = {}

\* Every FileInfo and FolderInfo of a tree, the root included
RECURSIVE Entries(_)
Entries(node) ==
  {node} \cup UNION {Entries(node.children[i]) : i \in 1..Len(node.children)}

\* C12: for every entry of a tree built from the current workspace root,
\* validatePath of the entry's path returns the absolute path of the file or
\* directory the entry was produced from (the workspace name is stripped once,
\* also below a sub-folder named like the workspace).
C12_TreePathsResolveToSource ==
  (resp.op = "getFileTree" /\ resp.tree.kind = "folder")
  => \A e \in Entries(resp.tree) :
       /\ validatePath(e.path).error = ""
       /\ Resolve(validatePath(e.path).path) = Resolve(e.source)

C12_Witness ==
  /\ resp.op = "getFileTree"
  /\ currentWorkspacePath = <<"/", "d">>
  /\ \E e \in Entries(resp.tree) :
       /\ e.path = <<"d", "/", "d", "/">> \o Doc(<<"a">>)
       /\ validatePath(e.path).path = <<"/", "d", "/", "d", "/">> \o Doc(<<"a">>)

\* A file exists at path p
ExistingFile(d, p) == Lookup(d, p).found /\ IsFile(d, Lookup(d, p).key)

\* The entry next to the one at path p (in the same directory) called name
Sibling(d, p, name) == ChildKey(ParentKey(Lookup(d, p).key), name)

HasSeparator(name) == \E i \in 1..Len(name) : name[i] = "/"

\* C13: renameFile to a name under which a document already exists next to
\* the source fails with 'A file with this name already exists' and leaves
\* the filesystem, so both documents, as it was.
C13_RenameCollisionRefused ==
  [][(/\ resp'.op = "renameFile"
      /\ validatePath(resp'.path).error = ""
      /\ ExistingFile(disk, validatePath(resp'.path).path)
      /\ ~HasSeparator(resp'.name)
      /\ IsFile(disk, Sibling(disk, validatePath(resp'.path).path, WithExt(resp'.name))))
     => (resp'.error = ErrNameTaken /\ disk' = disk)]_vars

C13_Witness ==
  /\ resp.op = "renameFile"
  /\ resp.path = <<"d", "/">> \o Doc(<<"a">>)
  /\ resp.name = <<"b">>
  /\ resp.error = ErrNameTaken
  /\ disk[<<"/", "d", "/">> \o Doc(<<"a">>)] = "docA"
  /\ disk[<<"/", "d", "/">> \o Doc(<<"b">>)] = InitialData

\* C14: a successful renameFile of a document renames in place: the old path
\* is gone, the content is in the same directory under newName with the
\* document extension, nothing else has changed, and the path returned
\* resolves to the new file.
C14_RenameInPlace ==
  [][(/\ resp'.op = "renameFile"
      /\ resp'.error = ""
      /\ ExistingFile(disk, validatePath(resp'.path).path))
     => LET old == Lookup(disk, validatePath(resp'.path).path).key
            new == Sibling(disk, validatePath(resp'.path).path, WithExt(resp'.name))
        IN /\ old \notin DOMAIN disk'
           /\ ParentKey(new) = ParentKey(old)
           /\ new \in DOMAIN disk' /\ disk'[new] = disk[old]
           /\ Changed(disk, disk') \subseteq {old, new}
           /\ Lookup(disk', NormalizedPath(resp'.entry.path)).key = new]_vars

\* C15: after createFile(name, parentPath) succeeds, the file parentPath/name
\* with the document extension exists and holds the template, and readFile of
\* the id made from the returned path returns that template; this includes
\* createFile(name, "") on an empty workspace.
C15_CreatedDocumentReadsBack ==
  (resp.op = "createFile" /\ resp.error = "")
  => LET parent == Lookup(disk, NormalizedPath(resp.path))
         created == ChildKey(parent.key, WithExt(resp.name))
         read == readFile(decodeFileId(encodeFileId(resp.entry.path)))
     IN /\ parent.found
        /\ IsFile(disk, created) /\ disk[created] = InitialData
        /\ read.error = "" /\ read.content = InitialData
        /\ Lookup(disk, NormalizedPath(resp.entry.path)).key = created

C15_Witness ==
  /\ resp.op = "createFile"
  /\ resp.error = ""
  /\ resp.path = <<>>
  /\ resp.name = <<"b">>
  /\ DOMAIN disk = {<<"/">>, <<"/", "d">>, <<"/", "d", "/">> \o Doc(<<"b">>)}
  /\ readFile(decodeFileId(encodeFileId(resp.entry.path))).content = InitialData

\* C16: the FileInfo a successful createFile returns and the FolderInfo a
\* successful createFolder returns have the name, path and parentPath of the
\* entry for that file or folder in the tree built right afterwards, for
\* every parent path, the empty one included.
C16_ReturnedEntryMatchesTree ==
  (resp.op \in {"createFile", "createFolder"} /\ resp.error = "")
  => \A order \in ReaddirOrders :
       \E e \in Entries(getFileTree(disk, order).tree) :
         /\ e.kind = resp.entry.kind
         /\ Resolve(e.source) = Resolve(resp.entry.source)
         /\ e.name = resp.entry.name
         /\ e.path = resp.entry.path
         /\ e.parentPath = resp.entry.parentPath

\* The pieces of key x below the root key r
PiecesBelow(r, x) == NonEmptyPieces(Substring(x, Len(r)))

NoDotPiece(pieces) == \A i \in 1..Len(pieces) : ~StartsWith(pieces[i], <<".">>)

\* The directories at or below r that are not in or below a dot-directory
ListedDirs(d, r) ==
  {x \in Subtree(d, r) : IsDir(d, x) /\ NoDotPiece(PiecesBelow(r, x))}

\* The documents below r that are not below a dot-directory
ListedDocs(d, r) ==
  {x \in Subtree(d, r) :
     /\ IsFile(d, x) /\ EndsWith(Basename(x), ExcalidrawExt)
     /\ NoDotPiece(PiecesBelow(r, ParentKey(x)))}

\* The entries of a tree in the order of a walk, each as often as it occurs
RECURSIVE Flatten(_)
RECURSIVE FlattenAll(_)
FlattenAll(nodes) ==
  IF Len(nodes) = 0 THEN <<>> ELSE Flatten(nodes[1]) \o FlattenAll(Tail(nodes))

Flatten(node) == <<node>> \o FlattenAll(node.children)

\* tree has one folder entry per listed directory, one file entry per listed
\* document, no other entry, and every child below the entry of its directory
TreeMatchesDisk(tree, d, r) ==
  LET all == Flatten(tree)
      Of(kind) == {Resolve(all[i].source) : i \in {j \in 1..Len(all) : all[j].kind = kind}}
  IN /\ tree.kind = "folder"
     /\ Of("folder") = ListedDirs(d, r)
     /\ Of("file") = ListedDocs(d, r)
     /\ Len(all) = Cardinality(ListedDirs(d, r)) + Cardinality(ListedDocs(d, r))
     /\ \A e \in Entries(tree) : \A i \in 1..Len(e.children) :
          ParentKey(Resolve(e.children[i].source)) = Resolve(e.source)

\* C17: with a workspace selected, after any sequence of successful create,
\* delete and rename requests getFileTree returns a tree with exactly one
\* folder entry for each directory that is not a dot-directory and one file
\* entry for each document under the root, nested as on disk.
C17_TreeMirrorsDisk ==
  (resp.op = "getFileTree" /\ currentWorkspacePath # Null)
  => /\ resp.error = ""
     /\ TreeMatchesDisk(resp.tree, disk, Resolve(currentWorkspacePath))

\* children has all folders before all files, each group in order of name
OrderedChildren(children) ==
  \A i \in 1..Len(children) : \A j \in (i + 1)..Len(children) :
    /\ ~(children[i].kind = "file" /\ children[j].kind = "folder")
    /\ children[i].kind = children[j].kind
         => LocaleCompare(children[i].name, children[j].name) <= 0

\* C18: building the tree of an unchanged directory again gives the same
\* tree, whatever order the filesystem lists the entries in, and in every
\* folder of it the folders come before the files, each group ordered by name.
C18_TreeIndependentOfListingOrder ==
  (resp.op = "getFileTree" /\ resp.tree.kind = "folder")
  => /\ \A order \in ReaddirOrders : getFileTree(disk, order).tree = resp.tree
     /\ \A e \in Entries(resp.tree) : OrderedChildren(e.children)

\* C19: a tree has an entry for every directory that is not (in) a
\* dot-directory, empty or not, and no entry for a dotfile, for a
\* dot-directory or for a file without the document extension.
C19_TreeListsFoldersHidesDotNames ==
  (resp.op = "getFileTree" /\ resp.tree.kind = "folder")
  => /\ \A x \in ListedDirs(disk, Resolve(currentWorkspacePath)) :
          \E e \in Entries(resp.tree) : e.kind = "folder" /\ Resolve(e.source) = x
     /\ \A e \in Entries(resp.tree) \ {resp.tree} :
          /\ ~StartsWith(Basename(e.source), <<".">>)
          /\ e.kind = "file" => EndsWith(Basename(e.source), ExcalidrawExt)

\* C20: getFileTree returns null when no workspace is selected, fails with
\* 'Workspace path does not exist' when the workspace's root directory is no
\* longer on disk, and returns the tree of the workspace root otherwise; an
\* empty tree never stands for one of the first two.
C20_TreeOrNoneOrMissing ==
  resp.op = "getFileTree"
  => IF currentWorkspacePath = Null
       THEN resp.error = "" /\ resp.tree = NoEntry
     ELSE IF ~IsDir(disk, Resolve(currentWorkspacePath))
       THEN resp.error = ErrWorkspaceMissing /\ resp.tree = NoEntry
     ELSE /\ resp.error = ""
          /\ \E order \in ReaddirOrders :
               resp.tree = listExcalidrawFilesRecursive(disk, currentWorkspacePath,
                                                        <<>>, order)

----------------------------------------------------------------------------
(* deleteFolder and createFile: the error cases and their frame             *)

\* C21: deleteFolder of a path that passes validation and is not the
\* workspace root fails with 'Folder not found' when nothing is there and
\* with 'Path is not a directory' when the entry is not a directory, the
\* filesystem staying as it was; otherwise it succeeds and the entries removed
\* are exactly the folder and everything below it.
C21_DeleteFolderOutcomes ==
  [][(/\ resp'.op = "deleteFolder"
      /\ validatePath(resp'.path).error = ""
      /\ validatePath(resp'.path).path # Normalize(currentWorkspacePath))
     => LET target == Lookup(disk, validatePath(resp'.path).path)
        IN /\ ~target.found => (resp'.error = ErrFolderNotFound /\ disk' = disk)
           /\ (target.found /\ ~IsDir(disk, target.key))
                => (resp'.error = ErrNotADirectory /\ disk' = disk)
           /\ (target.found /\ IsDir(disk, target.key))
                => /\ resp'.error = ""
                   /\ Changed(disk, disk') = Subtree(disk, target.key)
                   /\ DOMAIN disk' = (DOMAIN disk) \ Subtree(disk, target.key)]_vars

\* a folder with a document in it has been removed, its sibling document stays
C21_Witness ==
  /\ resp.op = "deleteFolder"
  /\ resp.error = ""
  /\ resp.changed = {<<"/", "d", "/", "s">>, <<"/", "d", "/", "s", "/">> \o Doc(<<"b">>)}
  /\ IsFile(disk, <<"/", "d", "/">> \o Doc(<<"a">>))

\* The path createFile(name, parentPath) hands to validatePath
CreateFilePath(name, parentPath) ==
  IF parentPath # <<>> THEN parentPath \o <<"/">> \o WithExt(name) ELSE WithExt(name)

\* C22: createFile fails with 'File already exists' whenever a file is at the
\* target path (parentPath/name with the document extension, resolved in the
\* workspace), and a call that fails with this error leaves every file's
\* content as it was and creates no directory.
C22_CreateExistingRefused ==
  [][(resp'.op = "createFile"
      /\ validatePath(CreateFilePath(resp'.name, resp'.path)).error = "")
     => /\ ExistingFile(disk, validatePath(CreateFilePath(resp'.name, resp'.path)).path)
             => resp'.error = ErrFileExists
        /\ resp'.error = ErrFileExists => disk' = disk]_vars

\* createFile('a.excalidraw', 'd') on the document that holds docA
C22_Witness ==
  /\ resp.op = "createFile"
  /\ resp.path = <<"d">>
  /\ resp.name = Doc(<<"a">>)
  /\ currentWorkspacePath = <<"/", "d">>
  /\ resp.error = ErrFileExists
  /\ disk[<<"/", "d", "/">> \o Doc(<<"a">>)] = "docA"

----------------------------------------------------------------------------
(* The workspace root under select requests                                 *)

\* C23: a select request answered with an error has left currentWorkspacePath
\* as it was: the root changes only in requests answered 200 with the new
\* workspacePath and its rootFolder.
C23_FailedSelectKeepsWorkspace ==
  (resp.op = "select" /\ resp.status # 200)
  => (resp.wsWritten = Null \/ resp.wsWritten = resp.wsBefore)

\* C24: the tree of an answer is built from the currentWorkspacePath of the
\* moment of the walk: a select request no setWorkspacePath of another request
\* has run into since its own gets the tree of the workspacePath it returns,
\* one that another request's setWorkspacePath(B) has run into gets its own
\* workspacePath with the tree of the root written last; and
\* currentWorkspacePath changes only by the setWorkspacePath of a select
\* request, to that request's path, so it holds the root written last.
C24_TreeOfRootAtWalk ==
  [][/\ currentWorkspacePath' # currentWorkspacePath
          => \E h \in handlers : /\ h.op = "select" /\ h.pc = "set"
                                 /\ currentWorkspacePath' = h.path
     /\ \A h \in handlers \ handlers' :
          (h.pc = "walk" /\ resp' # resp /\ resp'.status = 200)
          => /\ resp'.tree.source = currentWorkspacePath
             /\ resp'.tree = listExcalidrawFilesRecursive(disk, currentWorkspacePath,
                                                          <<>>, "forward")
                \/ resp'.tree = listExcalidrawFilesRecursive(disk, currentWorkspacePath,
                                                             <<>>, "reverse")
             /\ (h.op = "select" /\ ~h.swapped) => resp'.tree.source = resp'.path
             /\ h.op = "select" => resp'.path = h.path]_vars

\* select of /d answered with the tree of /d/s, which a second select request
\* made the root in between
C24_Witness ==
  /\ resp.op = "select"
  /\ resp.status = 200
  /\ resp.path = <<"/", "d">>
  /\ resp.tree.source = <<"/", "d", "/", "s">>
  /\ resp.tree.name = <<"s">>
  /\ currentWorkspacePath = <<"/", "d", "/", "s">>

----------------------------------------------------------------------------
(* saveFile                                                                 *)

\* C25: saveFile only overwrites: a save on a path where no document exists
\* (a late save of a deleted document) creates no file, so the filesystem has
\* the same entries after the request as before.
C25_SaveOnlyOverwrites ==
  [][resp'.op = "saveFile" => DOMAIN disk' = DOMAIN disk]_vars

----------------------------------------------------------------------------
(* The client's identifiers                                                 *)

\* C26: for every entry path (a well-formed string, non-ASCII names included)
\* the client's encodeFileId returns an id that the server's decodeFileId
\* decodes to exactly that path.
C26_ClientIdDecodesToPath ==
  (resp.op = "clientCodec" /\ WellFormed(resp.path))
  => (resp.error = "" /\ resp.name = resp.path)

----------------------------------------------------------------------------
(* The App component: unsaved changes                                       *)

\* The content of the open document on the server
WrittenContent ==
  disk[Lookup(disk, validatePath(client.currentFile).path).key]

\* C27: whenever a document is open and the dirty flag is false, the content
\* written to the server for it has the fingerprint of the content the editor
\* holds (so an edit made while a save is in flight leaves the document dirty
\* when that save has completed).
C27_CleanMeansWritten ==
  (/\ client.currentFile # Null
   /\ ~client.isDirty
   /\ validatePath(client.currentFile).error = ""
   /\ ExistingFile(disk, validatePath(client.currentFile).path))
  => getFingerprint(WrittenContent) = getFingerprint(client.excalidrawData)

\* C28: handleRenameFile of a document other than the open one leaves the
\* dirty flag and the open document's content in the editor as they were, in
\* every step the handler takes.
C28_RenameOfOtherKeepsDirty ==
  [][(/\ client.task.handler = "handleRenameFile"
      /\ client'.task # client.task
      /\ client.currentFile # Null
      /\ client.task.target # client.currentFile
      /\ client.task.target # client.task.currentFile)
     => /\ client'.isDirty = client.isDirty
        /\ client'.excalidrawData = client.excalidrawData
        /\ client'.currentFile = client.currentFile]_vars

\* C29: handleSelectWorkspace with unsaved changes sends the write of the open
\* document first, no select request reaching the server before, and sends
\* the select request only after the write was answered 200; if the write fails the
\* select request is not sent and the workspace shown, the open document, its
\* content and the dirty flag stay as they were.
C29_FlushBeforeSelect ==
  [][/\ (Idle /\ Unsaved /\ client'.task.handler = "handleSelectWorkspace")
          => /\ client'.task.pc = "save"
             /\ client'.task.fileId = encodeFileId(client.currentFile)
             /\ client'.task.data = client.excalidrawData
     /\ (client.task.handler = "handleSelectWorkspace" /\ client.task.pc = "save")
          => /\ resp'.op # "select"
             /\ client'.task.pc = "select" => (resp.op = "saveFile" /\ resp.status = 200)
             /\ (client'.task # client.task /\ ~(resp.op = "saveFile" /\ resp.status = 200))
                  => /\ client'.task = NoTask
                     /\ client'.workspacePath = client.workspacePath
                     /\ client'.currentFile = client.currentFile
                     /\ client'.excalidrawData = client.excalidrawData
                     /\ client'.isDirty = client.isDirty
     /\ resp'.op = "select" => client.task.pc = "select"]_vars

\* the server refused the write of handleSelectWorkspace ('No workspace
\* selected' after a restart): the alert is shown, the document is still open
\* and dirty, and '/d' is still the workspace shown
C29_Witness ==
  /\ Idle
  /\ client.alert = <<"Failed to select workspace: ", "Failed to save file">>
  /\ client.isDirty
  /\ client.currentFile = <<"d", "/">> \o Doc(<<"a">>)
  /\ client.workspacePath = DataDirPath
  /\ currentWorkspacePath = Null

----------------------------------------------------------------------------
(* The directory browser                                                    *)

\* C30: with DATA_DIR set, a list request for a path that is not DATA_DIR or a
\* descendant of it is answered 403; the directory listed and every directory
\* in the listing is DATA_DIR or inside it; and parentPath is null or a path
\* equal to or inside DATA_DIR, null when DATA_DIR itself is listed.
C30_BrowseInsideDataDir ==
  (resp.op = "list" /\ dataDir # Null)
  => /\ (resp.path # <<>> /\ ~IsWithin(resp.path, dataDir)) => resp.status = 403
     /\ resp.status = 200
          => /\ IsWithin(resp.tree.path, dataDir)
             /\ \A i \in 1..Len(resp.tree.children) :
                  IsWithin(resp.tree.children[i].path, dataDir)
             /\ resp.tree.parentPath # Null => IsWithin(resp.tree.parentPath, dataDir)
             /\ resp.tree.path = Resolve(dataDir) => resp.tree.parentPath = Null

====
